---------------------------- MODULE Spec2Model ----------------------------
(***************************************************************************)
(* BiPartGen: the k-partite graph store (graph.c), the perfect-matching    *)
(* enumeration (graph_generate_perfect_matchings) and the blocked-clause   *)
(* selection of write_cnf_from_graph (bipartgen.c).                        *)
(*                                                                         *)
(* C arrays are functions over 0..n-1; the linked lists of matchings and   *)
(* of orderings are sequences (head = first element, tail = last element,  *)
(* next/prev = neighbouring positions).                                    *)
(***************************************************************************)
EXTENDS Integers, Sequences, FiniteSets, TLC

VARIABLES
  g,            \* struct k_partite_graph without its matchings field
  matchings,    \* g->matchings[p1][p2][n1]: the matching lists
  last,         \* the most recent graph API call and the graph before it
  pc,           \* position of the program
  up_to_size,   \* argument of graph_generate_perfect_matchings
  helper_size,  \* static helper_size
  hp1,          \* static hp1
  hp2,          \* static hp2
  hp1s,         \* static int *hp1s
  hp2s,         \* static int *hp2s
  hp2os,        \* static int *hp2os
  stack,        \* loop index i of each active generate_subset_permutations call
  blocking_method,         \* static blocking_method
  avoid_blocking_overlap,  \* static avoid_blocking_overlap
  blocked_clause_prob,     \* static blocked_clause_prob
  rand_stream,  \* the values rand() returns after srand(rand_seed), as far as drawn
  rand_next,    \* position in rand_stream of the value the next rand() returns
  blocked_edges,      \* int blocked_edges[p1_size][p2_size]
  witness_edges,      \* int witness_edges[p1_size][p2_size]
  matchings_blocked,  \* int matchings_blocked
  node_i,       \* loop variable i of the pass over the nodes of partition 0
  cursor,       \* matching_t *m of the pass: position in the list, NULL = 0
  counted,      \* the orderings the count pass counted as blocked
  emitted,      \* the clauses the emit pass wrote, with their orderings
  witnessed,    \* the records of this pass that have a witness
  board,        \* struct mutilated_chessboard
  board_pos     \* mchess_pos_t pos of the loops of mchess_generate_graph

graphVars == <<g, last>>
helperVars == <<up_to_size, helper_size, hp1, hp2, hp1s, hp2s, hp2os, stack>>
optionVars == <<blocking_method, avoid_blocking_overlap, blocked_clause_prob>>
selectorVars == <<blocking_method, avoid_blocking_overlap, blocked_clause_prob,
                  rand_stream, rand_next, blocked_edges, witness_edges,
                  matchings_blocked, node_i, cursor, counted, emitted, witnessed>>
chessVars == <<board, board_pos>>
vars == <<g, matchings, last, pc, up_to_size, helper_size, hp1, hp2, hp1s, hp2s,
          hp2os, stack, blocking_method, avoid_blocking_overlap, blocked_clause_prob,
          rand_stream, rand_next, blocked_edges, witness_edges, matchings_blocked,
          node_i, cursor, counted, emitted, witnessed, board, board_pos>>

-----------------------------------------------------------------------------
(* Inputs of the model *)

\* partition sizes handed to graph_create_with_sizes by the graph API runs
GraphSizeChoices == {<<2, 2>>, <<3, 2>>, <<2, 1>>, <<2, 1, 2>>}

BITS_IN_BYTE == 8

BYTE_MASK == BITS_IN_BYTE - 1

ROUND_UP(x, y) == ((x + y - 1) \div y) * y

\* a 0-based C array from a tuple
Arr(t) == [i \in 0..(Len(t) - 1) |-> t[i + 1]]

\* n & BYTE_MASK for a non-negative n
AndByteMask(n) == n % (BYTE_MASK + 1)

\* (c >> shift) & 0x1 on one byte of a bitvector
BitOf(c, shift) == (c \div (2 ^ shift)) % 2

\* c | (1 << shift)
BitSet(c, shift) == IF BitOf(c, shift) = 1 THEN c ELSE c + 2 ^ shift

\* c & ~(1 << shift)
BitClear(c, shift) == IF BitOf(c, shift) = 1 THEN c - 2 ^ shift ELSE c

-----------------------------------------------------------------------------
(* graph.c: creation and getters *)

graph_create_with_sizes(partitions, sizes) ==
  LET P == 0..(partitions - 1)
  IN [ partitions      |-> partitions,
       partition_sizes |-> [i \in P |-> sizes[i]],
       partition_edges |-> [i \in P |-> 0],
       num_neighbors   |-> [i \in P |-> [j \in P |->
                              IF i = j THEN <<>>
                              ELSE [k \in 0..(sizes[i] - 1) |-> 0]]],
       edges           |-> [i \in P |-> [j \in P |->
                              IF i = j THEN <<>>
                              ELSE [k \in 0..(sizes[i] - 1) |->
                                     [l \in 0..((ROUND_UP(sizes[j], BITS_IN_BYTE)
                                                   \div BITS_IN_BYTE) - 1) |-> 0]]]] ]

\* the empty matching lists allocated by graph_create_with_sizes
EmptyHeader == [matchings |-> 0, list |-> <<>>]

create_matchings(partitions, sizes) ==
  LET P == 0..(partitions - 1)
  IN [i \in P |-> [j \in P |->
        IF i = j THEN <<>> ELSE [k \in 0..(sizes[i] - 1) |-> EmptyHeader]]]

graph_get_num_partitions(G) == G.partitions

graph_get_partition_sizes(G) == G.partition_sizes

graph_is_edge_between(G, p1, n1, p2, n2) ==
  LET n2_shift == AndByteMask(n2)
  IN BitOf(G.edges[p1][p2][n1][n2 \div BITS_IN_BYTE], n2_shift)

graph_get_num_neighbors(G, p1, n1, p2) == G.num_neighbors[p1][p2][n1]

\* the loop "for (n2 = from; n2 < p2_size; n2++) if edge: neighbors[idx++] = n2"
RECURSIVE ScanNeighbors(_, _, _, _, _)
ScanNeighbors(G, p1, n1, p2, from) ==
  IF from >= G.partition_sizes[p2] THEN <<>>
  ELSE (IF graph_is_edge_between(G, p1, n1, p2, from) = 1 THEN <<from>> ELSE <<>>)
       \o ScanNeighbors(G, p1, n1, p2, from + 1)

\* returns the array and *size
graph_get_neighbors(G, p1, n1, p2) ==
  LET num == G.num_neighbors[p1][p2][n1]
  IN [ size      |-> num,
       neighbors |-> IF num = 0 THEN <<>> ELSE ScanNeighbors(G, p1, n1, p2, 0) ]

\* "for (i = lo; i < hi; i++) edges += f[i]": the sum a counting loop adds
RECURSIVE SumLoop(_, _, _)
SumLoop(f, lo, hi) == IF lo >= hi THEN 0 ELSE f[lo] + SumLoop(f, lo + 1, hi)

\* graph_get_edge_id that forgets the nodes below n1
graph_get_edge_id_skip_nodes(G, p1, n1, p2, n2) ==
  IF graph_is_edge_between(G, p1, n1, p2, n2) = 0 THEN 0
  ELSE
    LET Lower == [n \in 0..(n2 - 1) |-> graph_is_edge_between(G, p1, n1, p2, n)]
    IN SumLoop(Lower, 0, n2) + 1

RECURSIVE graph_get_edge_id(_, _, _, _, _)
graph_get_edge_id(G, p1, n1, p2, n2) ==
  IF p1 > p2 THEN graph_get_edge_id(G, p2, n2, p1, n1)
  ELSE IF graph_is_edge_between(G, p1, n1, p2, n2) = 0 THEN 0
  ELSE
    LET partitions == G.partitions
        PartEdges == G.partition_edges
        NodeEdges == [n \in 0..(n1 - 1) |->
                       SumLoop([p \in (p1 + 1)..(partitions - 1) |->
                                  graph_get_num_neighbors(G, p1, n, p)],
                               p1 + 1, partitions)]
        Lower == [n \in 0..(n2 - 1) |-> graph_is_edge_between(G, p1, n1, p2, n)]
        edges == SumLoop(PartEdges, 0, p1)
                   + SumLoop(NodeEdges, 0, n1)
                   + SumLoop(Lower, 0, n2)
    IN edges + 1

-----------------------------------------------------------------------------
(* graph.c: modification functions *)

\* graph_add_edge that sets the bit of one direction only
graph_add_edge_one_way(G, p1, n1, p2, n2) ==
  IF graph_is_edge_between(G, p1, n1, p2, n2) = 1 THEN G
  ELSE
    LET n2_shift == AndByteMask(n2)
        small    == IF p1 < p2 THEN p1 ELSE p2
    IN [G EXCEPT
          !.num_neighbors[p1][p2][n1] = @ + 1,
          !.num_neighbors[p2][p1][n2] = @ + 1,
          !.partition_edges[small] = @ + 1,
          !.edges[p1][p2][n1][n2 \div BITS_IN_BYTE] = BitSet(@, n2_shift)]

\* graph_add_edge that counts the new neighbor of n1 only
graph_add_edge_one_counter(G, p1, n1, p2, n2) ==
  IF graph_is_edge_between(G, p1, n1, p2, n2) = 1 THEN G
  ELSE
    LET n1_shift == AndByteMask(n1)
        n2_shift == AndByteMask(n2)
        small    == IF p1 < p2 THEN p1 ELSE p2
    IN [G EXCEPT
          !.num_neighbors[p1][p2][n1] = @ + 1,
          !.partition_edges[small] = @ + 1,
          !.edges[p1][p2][n1][n2 \div BITS_IN_BYTE] = BitSet(@, n2_shift),
          !.edges[p2][p1][n2][n1 \div BITS_IN_BYTE] = BitSet(@, n1_shift)]

graph_add_edge(G, p1, n1, p2, n2) ==
  IF graph_is_edge_between(G, p1, n1, p2, n2) = 1 THEN G
  ELSE
    LET n1_shift == AndByteMask(n1)
        n2_shift == AndByteMask(n2)
        small    == IF p1 < p2 THEN p1 ELSE p2
    IN [G EXCEPT
          !.num_neighbors[p1][p2][n1] = @ + 1,
          !.num_neighbors[p2][p1][n2] = @ + 1,
          !.partition_edges[small] = @ + 1,
          !.edges[p1][p2][n1][n2 \div BITS_IN_BYTE] = BitSet(@, n2_shift),
          !.edges[p2][p1][n2][n1 \div BITS_IN_BYTE] = BitSet(@, n1_shift)]

\* graph_remove_edge without the early return on an absent edge
graph_remove_edge_no_check(G, p1, n1, p2, n2) ==
  LET n1_shift == AndByteMask(n1)
      n2_shift == AndByteMask(n2)
      small    == IF p1 < p2 THEN p1 ELSE p2
  IN [G EXCEPT
        !.num_neighbors[p1][p2][n1] = @ - 1,
        !.num_neighbors[p2][p1][n2] = @ - 1,
        !.partition_edges[small] = @ - 1,
        !.edges[p1][p2][n1][n2 \div BITS_IN_BYTE] = BitClear(@, n2_shift),
        !.edges[p2][p1][n2][n1 \div BITS_IN_BYTE] = BitClear(@, n1_shift)]

\* graph_remove_edge that takes the edge off the count of its first partition
graph_remove_edge_first_partition(G, p1, n1, p2, n2) ==
  IF graph_is_edge_between(G, p1, n1, p2, n2) = 0 THEN G
  ELSE
    LET n1_shift == AndByteMask(n1)
        n2_shift == AndByteMask(n2)
    IN [G EXCEPT
          !.num_neighbors[p1][p2][n1] = @ - 1,
          !.num_neighbors[p2][p1][n2] = @ - 1,
          !.partition_edges[p1] = @ - 1,
          !.edges[p1][p2][n1][n2 \div BITS_IN_BYTE] = BitClear(@, n2_shift),
          !.edges[p2][p1][n2][n1 \div BITS_IN_BYTE] = BitClear(@, n1_shift)]

graph_remove_edge(G, p1, n1, p2, n2) ==
  IF graph_is_edge_between(G, p1, n1, p2, n2) = 0 THEN G
  ELSE
    LET n1_shift == AndByteMask(n1)
        n2_shift == AndByteMask(n2)
        small    == IF p1 < p2 THEN p1 ELSE p2
    IN [G EXCEPT
          !.num_neighbors[p1][p2][n1] = @ - 1,
          !.num_neighbors[p2][p1][n2] = @ - 1,
          !.partition_edges[small] = @ - 1,
          !.edges[p1][p2][n1][n2 \div BITS_IN_BYTE] = BitClear(@, n2_shift),
          !.edges[p2][p1][n2][n1 \div BITS_IN_BYTE] = BitClear(@, n1_shift)]

\* the loop of graph_fully_connect_node from n2 on
RECURSIVE ConnectNodeFrom(_, _, _, _, _)
ConnectNodeFrom(G, p1, n1, p2, n2) ==
  IF n2 >= G.partition_sizes[p2] THEN G
  ELSE ConnectNodeFrom(graph_add_edge(G, p1, n1, p2, n2), p1, n1, p2, n2 + 1)

graph_fully_connect_node(G, p1, n1, p2) == ConnectNodeFrom(G, p1, n1, p2, 0)

\* the loop of graph_fully_connect_partition from n1 on
RECURSIVE ConnectPartitionFrom(_, _, _, _)
ConnectPartitionFrom(G, p1, p2, n1) ==
  IF n1 >= G.partition_sizes[p1] THEN G
  ELSE ConnectPartitionFrom(graph_fully_connect_node(G, p1, n1, p2), p1, p2, n1 + 1)

graph_fully_connect_partition(G, p1, p2) == ConnectPartitionFrom(G, p1, p2, 0)

-----------------------------------------------------------------------------
(* The graph API driven by a caller with valid arguments *)

Parts(G) == 0..(G.partitions - 1)

Nodes(G, p) == 0..(G.partition_sizes[p] - 1)

NoCall == [op |-> "none"]

\* the file-scope statics of graph.c before graph_generate_perfect_matchings
HelpersAtStart ==
  /\ up_to_size = 0
  /\ helper_size = 0
  /\ hp1 = 0
  /\ hp2 = 0
  /\ hp1s = <<>>
  /\ hp2s = <<>>
  /\ hp2os = <<>>
  /\ stack = <<>>

\* the statics of bipartgen.c; nothing of write_cnf_from_graph exists yet
SelectorAtStart ==
  /\ blocking_method = 0
  /\ avoid_blocking_overlap = 0
  /\ blocked_clause_prob = 0
  /\ rand_stream = <<>>
  /\ rand_next = 1
  /\ blocked_edges = <<>>
  /\ witness_edges = <<>>
  /\ matchings_blocked = 0
  /\ node_i = 0
  /\ cursor = 0
  /\ counted = <<>>
  /\ emitted = <<>>
  /\ witnessed = {}

\* no chessboard has been created
ChessAtStart ==
  /\ board = <<>>
  /\ board_pos = [row |-> 0, col |-> 0]

Call(op, p1, n1, p2, n2, G) ==
  [op |-> op, p1 |-> p1, n1 |-> n1, p2 |-> p2, n2 |-> n2, pre |-> G]

InitGraph ==
  /\ \E sizes \in GraphSizeChoices :
       /\ g = graph_create_with_sizes(Len(sizes), Arr(sizes))
       /\ matchings = create_matchings(Len(sizes), Arr(sizes))
  /\ last = NoCall
  /\ pc = "build"
  /\ HelpersAtStart
  /\ SelectorAtStart
  /\ ChessAtStart

AddEdge ==
  /\ pc = "build"
  /\ \E p1 \in Parts(g), p2 \in Parts(g) :
       /\ p1 # p2
       /\ \E n1 \in Nodes(g, p1), n2 \in Nodes(g, p2) :
            /\ g' = graph_add_edge(g, p1, n1, p2, n2)
            /\ last' = Call("add", p1, n1, p2, n2, g)
  /\ UNCHANGED <<matchings, pc>>
  /\ UNCHANGED helperVars
  /\ UNCHANGED selectorVars
  /\ UNCHANGED chessVars

RemoveEdge ==
  /\ pc = "build"
  /\ \E p1 \in Parts(g), p2 \in Parts(g) :
       /\ p1 # p2
       /\ \E n1 \in Nodes(g, p1), n2 \in Nodes(g, p2) :
            /\ g' = graph_remove_edge(g, p1, n1, p2, n2)
            /\ last' = Call("remove", p1, n1, p2, n2, g)
  /\ UNCHANGED <<matchings, pc>>
  /\ UNCHANGED helperVars
  /\ UNCHANGED selectorVars
  /\ UNCHANGED chessVars

FullyConnectNode ==
  /\ pc = "build"
  /\ \E p1 \in Parts(g), p2 \in Parts(g) :
       /\ p1 # p2
       /\ \E n1 \in Nodes(g, p1) :
            /\ g' = graph_fully_connect_node(g, p1, n1, p2)
            /\ last' = Call("connect_node", p1, n1, p2, 0, g)
  /\ UNCHANGED <<matchings, pc>>
  /\ UNCHANGED helperVars
  /\ UNCHANGED selectorVars
  /\ UNCHANGED chessVars

FullyConnectPartition ==
  /\ pc = "build"
  /\ \E p1 \in Parts(g), p2 \in Parts(g) :
       /\ p1 # p2
       /\ g' = graph_fully_connect_partition(g, p1, p2)
       /\ last' = Call("connect_partition", p1, 0, p2, 0, g)
  /\ UNCHANGED <<matchings, pc>>
  /\ UNCHANGED helperVars
  /\ UNCHANGED selectorVars
  /\ UNCHANGED chessVars

NextGraph ==
  \/ AddEdge
  \/ RemoveEdge
  \/ FullyConnectNode
  \/ FullyConnectPartition

SpecGraph == InitGraph /\ [][NextGraph]_vars

-----------------------------------------------------------------------------
(* graph.c: graph_create *)

\* largest number of partitions and of nodes handed to graph_create
MaxPartitions == 4

MaxNodes == 3

\* what the ints behind the end of the xmalloc'ed sizes array may hold
HeapChoices == {0, 1, 2, 7}

\* graph_create: sizes has `nodes` ints, all set to nodes;
\* graph_create_with_sizes copies `partitions` ints from it, so the ints
\* from index nodes on are read behind the end of the array (beyond)
graph_create(partitions, nodes, beyond) ==
  graph_create_with_sizes(partitions,
    [i \in 0..(partitions - 1) |-> IF i < nodes THEN nodes ELSE beyond[i]])

\* no graph has been created yet
NoGraph == graph_create_with_sizes(0, <<>>)

InitCreate ==
  /\ g = NoGraph
  /\ matchings = create_matchings(0, <<>>)
  /\ last = NoCall
  /\ pc = "create"
  /\ HelpersAtStart
  /\ SelectorAtStart
  /\ ChessAtStart

\* graph_create(partitions, nodes)
GraphCreate ==
  /\ pc = "create"
  /\ \E partitions \in 2..MaxPartitions, nodes \in 1..MaxNodes :
       \E beyond \in [nodes..(partitions - 1) -> HeapChoices] :
         /\ g' = graph_create(partitions, nodes, beyond)
         /\ matchings' = create_matchings(partitions,
                                          graph_create(partitions, nodes, beyond).partition_sizes)
         /\ last' = [op |-> "graph_create", partitions |-> partitions, nodes |-> nodes]
  /\ pc' = "build"
  /\ UNCHANGED helperVars
  /\ UNCHANGED selectorVars
  /\ UNCHANGED chessVars

NextCreate == GraphCreate

SpecCreate == InitCreate /\ [][NextCreate]_vars

-----------------------------------------------------------------------------
(* mchess.c: the mutilated chessboard and its graph *)

\* enum mutlilated_chessboard_variant
NORMAL == 0

CYLINDER == 1

TORUS == 2

\* enum neighbor
LEFT == 0

RIGHT == 1

UP == 2

DOWN == 3

BAD_POS == -1

\* largest board side handed to mchess_create
MaxBoard == 6

IS_WHITE(row, col) == (row + col) % 2 = 0

GET_BIT(mc, row, col) ==
  BitOf(mc.squares[row][col \div BITS_IN_BYTE], AndByteMask(col))

mchess_remove_square(mc, row, col) ==
  IF GET_BIT(mc, row, col) = 0 THEN mc
  ELSE [mc EXCEPT !.white = IF IS_WHITE(row, col) THEN @ - 1 ELSE @,
                  !.black = IF IS_WHITE(row, col) THEN @ ELSE @ - 1,
                  !.squares[row][col \div BITS_IN_BYTE] = BitClear(@, AndByteMask(col))]

mchess_create(n, variant) ==
  LET bv_size == ROUND_UP(n, BITS_IN_BYTE) \div BITS_IN_BYTE
      full == [ n |-> n,
                white |-> (n * n + 1) \div 2,
                black |-> (n * n) \div 2,
                variant |-> variant,
                squares |-> [i \in 0..(n - 1) |-> [b \in 0..(bv_size - 1) |-> 255]] ]
      second_square ==
        IF variant = NORMAL THEN [row |-> n - 1, col |-> n - 1]
        ELSE IF variant = CYLINDER THEN [row |-> n - 1, col |-> n \div 2]
        ELSE [row |-> n \div 2, col |-> n \div 2]
  IN mchess_remove_square(mchess_remove_square(full, 0, 0),
                          second_square.row, second_square.col)

get_neighbor(mc, row, col, neigh) ==
  IF neigh = LEFT /\ col = 0
  THEN IF mc.variant = NORMAL THEN [row |-> BAD_POS, col |-> BAD_POS]
       ELSE [row |-> row, col |-> mc.n - 1]
  ELSE IF neigh = RIGHT /\ col = mc.n - 1
  THEN IF mc.variant = NORMAL THEN [row |-> BAD_POS, col |-> BAD_POS]
       ELSE [row |-> row, col |-> 0]
  ELSE IF neigh = UP /\ row = 0
  THEN IF mc.variant = TORUS THEN [row |-> mc.n - 1, col |-> col]
       ELSE [row |-> BAD_POS, col |-> BAD_POS]
  ELSE IF neigh = DOWN /\ row = mc.n - 1
  THEN IF mc.variant = TORUS THEN [row |-> 0, col |-> col]
       ELSE [row |-> BAD_POS, col |-> BAD_POS]
  ELSE IF neigh = LEFT THEN [row |-> row, col |-> col - 1]
  ELSE IF neigh = RIGHT THEN [row |-> row, col |-> col + 1]
  ELSE IF neigh = UP THEN [row |-> row - 1, col |-> col]
  ELSE [row |-> row + 1, col |-> col]

is_neighbor_present(mc, row, col, neigh) ==
  LET n_pos == get_neighbor(mc, row, col, neigh)
  IN IF n_pos.row = BAD_POS \/ n_pos.col = BAD_POS THEN 0
     ELSE GET_BIT(mc, n_pos.row, n_pos.col)

mchess_get_num_neighbors(mc, row, col) ==
  is_neighbor_present(mc, row, col, LEFT) + is_neighbor_present(mc, row, col, RIGHT)
  + is_neighbor_present(mc, row, col, UP) + is_neighbor_present(mc, row, col, DOWN)

\* the present neighbours in the order LEFT, RIGHT, UP, DOWN
RECURSIVE neighbors_from(_, _, _, _)
neighbors_from(mc, row, col, neigh) ==
  IF neigh > DOWN THEN <<>>
  ELSE IF is_neighbor_present(mc, row, col, neigh) = 1
       THEN <<get_neighbor(mc, row, col, neigh)>> \o neighbors_from(mc, row, col, neigh + 1)
       ELSE neighbors_from(mc, row, col, neigh + 1)

mchess_get_neighbors_vertical(mc, row, col) == neighbors_from(mc, row, col, UP)

mchess_get_neighbors(mc, row, col) == neighbors_from(mc, row, col, LEFT)

\* the scan of mchess_get_tile_id from square k = row * n + col on
RECURSIVE tile_scan(_, _, _, _, _)
tile_scan(mc, prow, pcol, k, id) ==
  IF k >= mc.n * mc.n THEN id
  ELSE LET row == k \div mc.n
           col == k % mc.n
       IN IF IS_WHITE(row, col) = IS_WHITE(prow, pcol)
          THEN IF prow = row /\ pcol = col THEN id
               ELSE IF GET_BIT(mc, row, col) = 1
                    THEN tile_scan(mc, prow, pcol, k + 1, id + 1)
                    ELSE tile_scan(mc, prow, pcol, k + 1, id)
          ELSE tile_scan(mc, prow, pcol, k + 1, id)

mchess_get_tile_id(mc, row, col) ==
  IF GET_BIT(mc, row, col) = 0 THEN 0 - 1 ELSE tile_scan(mc, row, col, 0, 0)

\* "For each neighbor, add an edge": the loop over neighbors[i]
RECURSIVE add_neighbor_edges(_, _, _, _, _, _)
add_neighbor_edges(G, mc, row, col, neighbors, i) ==
  IF i > Len(neighbors) THEN G
  ELSE LET id       == mchess_get_tile_id(mc, row, col)
           neigh_id == mchess_get_tile_id(mc, neighbors[i].row, neighbors[i].col)
       IN IF IS_WHITE(row, col) = IS_WHITE(neighbors[i].row, neighbors[i].col)
          THEN add_neighbor_edges(G, mc, row, col, neighbors, i + 1)
          ELSE IF IS_WHITE(row, col)
               THEN add_neighbor_edges(graph_add_edge(G, 0, id, 1, neigh_id),
                                       mc, row, col, neighbors, i + 1)
               ELSE add_neighbor_edges(graph_add_edge(G, 0, neigh_id, 1, id),
                                       mc, row, col, neighbors, i + 1)

InitChess ==
  /\ \E n \in 1..MaxBoard, variant \in {NORMAL, CYLINDER, TORUS} :
       board = mchess_create(n, variant)
  /\ board_pos = [row |-> 0, col |-> 0]
  /\ g = NoGraph
  /\ matchings = create_matchings(0, <<>>)
  /\ last = NoCall
  /\ pc = "chess"
  /\ HelpersAtStart
  /\ SelectorAtStart

\* mchess_generate_graph, up to the first test of the loop over the rows
GenerateGraphStart ==
  /\ pc = "chess"
  /\ g' = graph_create_with_sizes(2, Arr(<<board.white, board.black>>))
  /\ matchings' = create_matchings(2, Arr(<<board.white, board.black>>))
  /\ board_pos' = [row |-> 0, col |-> 0]
  /\ pc' = "chess_scan"
  /\ UNCHANGED <<board, last>>
  /\ UNCHANGED helperVars
  /\ UNCHANGED selectorVars

\* one turn of the loop over col: the edges of the square at pos
GenerateGraphSquare ==
  /\ pc = "chess_scan"
  /\ board_pos.row < board.n
  /\ g' = IF GET_BIT(board, board_pos.row, board_pos.col) = 0 THEN g
          ELSE add_neighbor_edges(g, board, board_pos.row, board_pos.col,
                                  mchess_get_neighbors(board, board_pos.row, board_pos.col), 1)
  /\ board_pos' = IF board_pos.col + 1 < board.n
                  THEN [row |-> board_pos.row, col |-> board_pos.col + 1]
                  ELSE [row |-> board_pos.row + 1, col |-> 0]
  /\ UNCHANGED <<board, matchings, last, pc>>
  /\ UNCHANGED helperVars
  /\ UNCHANGED selectorVars

\* the loop over the rows is over: return g
GenerateGraphEnd ==
  /\ pc = "chess_scan"
  /\ board_pos.row >= board.n
  /\ pc' = "chess_done"
  /\ UNCHANGED <<board, board_pos, g, matchings, last>>
  /\ UNCHANGED helperVars
  /\ UNCHANGED selectorVars

NextChess ==
  \/ GenerateGraphStart
  \/ GenerateGraphSquare
  \/ GenerateGraphEnd

SpecChess == InitChess /\ [][NextChess]_vars

-----------------------------------------------------------------------------
(* graph.c: helpers of the perfect-matching enumeration *)

\* partition sizes of the graphs handed to write_cnf_from_graph
SizeChoices == {<<2, 2>>, <<3, 2>>, <<3, 3>>}

\* largest -b <size> tried
MaxUpTo == 3

INT_MAX == 2147483647

\* an int of a malloc'ed array that was never written
Uninit == "uninit"

\* xmalloc(n * sizeof(int))
AllocInts(n) == [i \in 0..(n - 1) |-> Uninit]

\* "for (i = 0; i < size; i++) arr[i] = i"
ResetArr(arr, size) == [i \in DOMAIN arr |-> IF i < size THEN i ELSE arr[i]]

\* memcpy of the first size ints
Prefix(arr, size) == [i \in 0..(size - 1) |-> arr[i]]

\* the swap that forgets temp: a[x] = a[y]; a[y] = a[x]
Swap_no_temp(a, x, y) == [a EXCEPT ![x] = a[y]]

\* temp = a[x]; a[x] = a[y]; a[y] = temp
Swap(a, x, y) == [a EXCEPT ![x] = a[y], ![y] = a[x]]

\* do { idx--; arr[idx]++; } while (arr[idx] >= n && idx > 0)
RECURSIVE CarryDown(_, _, _)
CarryDown(arr, idx, n) ==
  LET j == idx - 1
      a == [arr EXCEPT ![j] = @ + 1]
  IN IF a[j] >= n /\ j > 0 THEN CarryDown(a, j, n) ELSE [arr |-> a, idx |-> j]

\* for (l = from; l < size; l++) arr[l] = arr[l - 1] + 1
RECURSIVE Propagate(_, _, _)
Propagate(arr, l, size) ==
  IF l >= size THEN arr
  ELSE Propagate([arr EXCEPT ![l] = arr[l - 1] + 1], l + 1, size)

\* while (arr[size - 1] >= n) { carry; propagate; break when arr[0] is past }
RECURSIVE CarryLoop(_, _, _)
CarryLoop(arr, size, n) ==
  IF arr[size - 1] >= n
  THEN LET c == CarryDown(arr, size - 1, n)
           a == Propagate(c.arr, c.idx + 1, size)
       IN IF a[0] >= n - size + 1 THEN a ELSE CarryLoop(a, size, n)
  ELSE arr

\* the step that increments the end twice
next_subset_skip(arr, size, n) == CarryLoop([arr EXCEPT ![size - 1] = @ + 2], size, n)

\* "Increment the end, modulo by size": the step to the next subset
next_subset(arr, size, n) == CarryLoop([arr EXCEPT ![size - 1] = @ + 1], size, n)

\* the inner search loop "is val among ns"
InArray(val, ns) == \E k \in 1..Len(ns) : ns[k] = val

\* one pass of the j loop: the entries of neighs also found in ns
RECURSIVE KeepFound(_, _)
KeepFound(neighs, ns) ==
  IF neighs = <<>> THEN <<>>
  ELSE (IF InArray(Head(neighs), ns) THEN <<Head(neighs)>> ELSE <<>>)
       \o KeepFound(Tail(neighs), ns)

\* the i loop of get_shared_neighborhood_size from i on
RECURSIVE SharedFrom(_, _, _, _, _)
SharedFrom(G, verts, num, i, neighs) ==
  IF i >= num THEN neighs
  ELSE SharedFrom(G, verts, num, i + 1,
                  KeepFound(neighs, graph_get_neighbors(G, 0, verts[i], 1).neighbors))

\* hard-coded from partition 0 to partition 1
get_shared_neighborhood_size(G, verts, num) ==
  Len(SharedFrom(G, verts, num, 1, graph_get_neighbors(G, 0, verts[0], 1).neighbors))

SetMin(S) == CHOOSE x \in S : \A y \in S : x <= y

get_pairwise_neighborhood_min_size(G, verts, num) ==
  LET res == { get_shared_neighborhood_size(G, Arr(<<verts[pr[1]], verts[pr[2]]>>), 2) :
                 pr \in { q \in (0..(num - 1)) \X (0..(num - 1)) : q[1] < q[2] } }
  IN SetMin(res \cup {INT_MAX})

\* the "goto permute_p1" tests of generate_permutations
subset_pruned(G, size, p1s) ==
  IF size = 2 THEN get_shared_neighborhood_size(G, p1s, 2) < 2
  ELSE IF size = 3
       THEN /\ get_shared_neighborhood_size(G, p1s, 3) < 3
            /\ get_pairwise_neighborhood_min_size(G, p1s, 3) < 1
       ELSE FALSE

\* the test that compares the right nodes of the tail with the ordering
tail_has_sets_against_ordering(h, size, p1s, p2s) ==
  /\ h.list # <<>>
  /\ LET curr == h.list[Len(h.list)]
     IN /\ curr.size = size
        /\ \A i \in 0..(size - 1) : curr.p1_nodes[i] = p1s[i]
        /\ \A i \in 0..(size - 1) : curr.p2_nodes[i] = p2s[(i + 1) % size]

\* h->tail != NULL, and the tail has the vertex sets hp1s, hp2s
tail_has_sets(h, size, p1s, p2s) ==
  /\ h.list # <<>>
  /\ LET curr == h.list[Len(h.list)]
     IN /\ curr.size = size
        /\ \A i \in 0..(size - 1) : curr.p1_nodes[i] = p1s[i]
        /\ \A i \in 0..(size - 1) : curr.p2_nodes[i] = p2s[i]

\* the walk that drops an ordering only when all positions up to end are equal
shares_edge_all_positions(curr, p2os, end) ==
  \E k \in 1..Len(curr.orderings) :
    \A i \in 0..end : curr.orderings[k][i] = p2os[i]

\* the walk that compares the first position only
shares_edge_position_zero(curr, p2os, end) ==
  \E k \in 1..Len(curr.orderings) : curr.orderings[k][0] = p2os[0]

\* the walk over curr's orderings: one of them equals p2os at a position <= end
shares_edge(curr, p2os, end) ==
  \E k \in 1..Len(curr.orderings) :
    \E i \in 0..end : curr.orderings[k][i] = p2os[i]

\* the record that keeps the right nodes in the order of the matching
new_matching_right_as_matched(size, p1s, p2s, p2os) ==
  [ size          |-> size,
    p1_nodes      |-> Prefix(p1s, size),
    p2_nodes      |-> [i \in 0..(size - 1) |-> p2s[p2os[i]]],
    num_orderings |-> 1,
    orderings     |-> <<Prefix(p2os, size)>>,
    iterator      |-> 1 ]

\* the record built under "New matching struct is necessary"
new_matching(size, p1s, p2s, p2os) ==
  [ size          |-> size,
    p1_nodes      |-> Prefix(p1s, size),
    p2_nodes      |-> Prefix(p2s, size),
    num_orderings |-> 1,
    orderings     |-> <<Prefix(p2os, size)>>,
    iterator      |-> 1 ]

\* the leaf case without the test of the final edge
leaf_store_unchecked(M, G, size, p1, p2, p1s, p2s, p2os) ==
  LET h == M[p1][p2][p1s[0]]
  IN IF tail_has_sets(h, size, p1s, p2s)
     THEN IF shares_edge(h.list[Len(h.list)], p2os, size - 1) THEN M
          ELSE [M EXCEPT ![p1][p2][p1s[0]] =
                 [ matchings |-> h.matchings + 1,
                   list |-> [h.list EXCEPT ![Len(h.list)] =
                               [@ EXCEPT !.orderings = Append(@, Prefix(p2os, size)),
                                         !.num_orderings = @ + 1]] ]]
     ELSE [M EXCEPT ![p1][p2][p1s[0]] =
            [ matchings |-> h.matchings + 1,
              list |-> Append(h.list, new_matching(size, p1s, p2s, p2os)) ]]

\* generate_subset_permutations(lo) with lo == helper_size - 1
leaf_store(M, G, size, p1, p2, p1s, p2s, p2os) ==
  LET lo  == size - 1
      map == p2os[lo]
      h   == M[p1][p2][p1s[0]]
  IN IF graph_is_edge_between(G, p1, p1s[lo], p2, p2s[map]) = 0 THEN M
     ELSE IF tail_has_sets(h, size, p1s, p2s)
     THEN IF shares_edge(h.list[Len(h.list)], p2os, size - 1) THEN M
          ELSE [M EXCEPT ![p1][p2][p1s[0]] =
                 [ matchings |-> h.matchings + 1,
                   list |-> [h.list EXCEPT ![Len(h.list)] =
                               [@ EXCEPT !.orderings = Append(@, Prefix(p2os, size)),
                                         !.num_orderings = @ + 1]] ]]
     ELSE [M EXCEPT ![p1][p2][p1s[0]] =
            [ matchings |-> h.matchings + 1,
              list |-> Append(h.list, new_matching(size, p1s, p2s, p2os)) ]]

\* the test that always compares all the positions, decided or not
may_recurse_all_positions(M, G, size, p1, p2, p1s, p2s, p2os, lo) ==
  LET map == p2os[lo]
      h   == M[p1][p2][p1s[0]]
  IN /\ graph_is_edge_between(G, p1, p1s[lo], p2, p2s[map]) = 1
     /\ ~ ( /\ tail_has_sets(h, size, p1s, p2s)
            /\ shares_edge(h.list[Len(h.list)], p2os, size - 1) )

\* inside the for loop, after the swap: recurse on lo + 1 or "goto swap"
may_recurse(M, G, size, p1, p2, p1s, p2s, p2os, lo) ==
  LET map == p2os[lo]
      h   == M[p1][p2][p1s[0]]
      end == IF lo = size - 2 THEN size - 1 ELSE lo
  IN /\ graph_is_edge_between(G, p1, p1s[lo], p2, p2s[map]) = 1
     /\ ~ ( /\ tail_has_sets(h, size, p1s, p2s)
            /\ shares_edge(h.list[Len(h.list)], p2os, end) )

\* the for loops of graph_generate_perfect_matchings: the pair at or after
\* (size, p1, p2) whose body runs, or size > up when the loops are over
RECURSIVE first_pair(_, _, _, _, _)
first_pair(size, p1, p2, partitions, up) ==
  IF size > up THEN [size |-> size, p1 |-> partitions, p2 |-> partitions]
  ELSE IF p1 >= partitions THEN first_pair(size + 1, 0, 1, partitions, up)
  ELSE IF p2 >= partitions THEN first_pair(size, p1 + 1, p1 + 2, partitions, up)
  ELSE [size |-> size, p1 |-> p1, p2 |-> p2]

-----------------------------------------------------------------------------
(* graph.c: the matching lists *)

\* a freed node_ordering_t the iterator still points to
Freed == -1

RemoveAt(sq, k) == SubSeq(sq, 1, k - 1) \o SubSeq(sq, k + 1, Len(sq))

\* the assignment the other way round: m->head = m->iterator
first_matching_head_moved(h) ==
  [h EXCEPT !.list[1].orderings = SubSeq(@, h.list[1].iterator, Len(@))]

\* graph_get_first_matching on a non-empty list: m = head; m->iterator = m->head
first_matching(h) == [h EXCEPT !.list[1].iterator = 1]

graph_get_num_matchings(M, p1, n1, p2) == M[p1][p2][n1].matchings

graph_get_num_similar_matchings(m) == m.num_orderings

\* graph_remove_matching on the record at position k of the list of h
graph_remove_matching(h, k) ==
  LET m == h.list[k]
  IN IF m.num_orderings > 1
     THEN [ matchings |-> h.matchings - 1,
            list |-> [h.list EXCEPT ![k] =
                        [@ EXCEPT !.orderings = RemoveAt(@, m.iterator),
                                  !.num_orderings = @ - 1,
                                  !.iterator = Freed]] ]
     ELSE [ matchings |-> h.matchings - 1, list |-> RemoveAt(h.list, k) ]

\* "while (m != NULL) { prev = m; m = next_set(m); if one ordering: remove prev }"
RECURSIVE prune_from(_, _)
prune_from(h, k) ==
  IF k > Len(h.list) THEN h
  ELSE IF graph_get_num_similar_matchings(h.list[k]) = 1
       THEN prune_from(graph_remove_matching(h, k), k)
       ELSE prune_from(h, k + 1)

\* the n1 loop body that tests the first matching only
prune_bucket_head_only(h) ==
  IF h.matchings > 0 /\ graph_get_num_similar_matchings(h.list[1]) = 1
  THEN graph_remove_matching(first_matching(h), 1)
  ELSE h

\* the body of the n1 loop at the end of graph_generate_perfect_matchings
prune_bucket(h) ==
  IF h.matchings > 0 THEN prune_from(first_matching(h), 1) ELSE h

\* the three loops "for p1, for p2 = p1 + 1, for n1"
prune_singletons(M, G) ==
  [p1 \in Parts(G) |-> [p2 \in Parts(G) |->
     IF p1 = p2 THEN M[p1][p2]
     ELSE IF p1 < p2 THEN [n1 \in Nodes(G, p1) |-> prune_bucket(M[p1][p2][n1])]
     ELSE M[p1][p2]]]

-----------------------------------------------------------------------------
(* graph_generate_perfect_matchings, one loop iteration at a time *)

Init ==
  /\ \E sizes \in SizeChoices :
       /\ g = graph_create_with_sizes(Len(sizes), Arr(sizes))
       /\ matchings = create_matchings(Len(sizes), Arr(sizes))
  /\ last = NoCall
  /\ pc = "build"
  /\ HelpersAtStart
  /\ SelectorAtStart
  /\ ChessAtStart

\* the call, up to the first test of the hp1s loop of generate_permutations
GenerateStart ==
  /\ pc = "build"
  /\ \E up \in 2..MaxUpTo :
       LET fp == first_pair(2, 0, 1, g.partitions, up)
       IN /\ up_to_size' = up
          /\ helper_size' = fp.size
          /\ hp1' = fp.p1
          /\ hp2' = fp.p2
          /\ hp1s' = ResetArr(AllocInts(up), fp.size)
          /\ hp2s' = AllocInts(up)
          /\ hp2os' = AllocInts(up)
  /\ stack' = <<>>
  /\ last' = NoCall
  /\ pc' = "p1_loop"
  /\ UNCHANGED <<g, matchings>>
  /\ UNCHANGED selectorVars
  /\ UNCHANGED chessVars

p1_size == g.partition_sizes[hp1]

p2_size == g.partition_sizes[hp2]

\* the left subset fails the shared-neighbourhood test: goto permute_p1
GenPruneSubset ==
  /\ pc = "p1_loop"
  /\ hp1s[0] < p1_size - helper_size + 1
  /\ subset_pruned(g, helper_size, hp1s)
  /\ hp1s' = next_subset(hp1s, helper_size, p1_size)
  /\ UNCHANGED <<g, matchings, last, pc, up_to_size, helper_size, hp1, hp2, hp2s,
                 hp2os, stack>>
  /\ UNCHANGED selectorVars
  /\ UNCHANGED chessVars

\* the left subset passes: reset the p2 array
GenEnterP2 ==
  /\ pc = "p1_loop"
  /\ hp1s[0] < p1_size - helper_size + 1
  /\ ~ subset_pruned(g, helper_size, hp1s)
  /\ hp2s' = ResetArr(hp2s, helper_size)
  /\ pc' = "p2_loop"
  /\ UNCHANGED <<g, matchings, last, up_to_size, helper_size, hp1, hp2, hp1s,
                 hp2os, stack>>
  /\ UNCHANGED selectorVars
  /\ UNCHANGED chessVars

\* generate_permutations returns and the loops call it for the next pair
GenNextPair ==
  /\ pc = "p1_loop"
  /\ ~ (hp1s[0] < p1_size - helper_size + 1)
  /\ LET fp == first_pair(helper_size, hp1, hp2 + 1, g.partitions, up_to_size)
     IN /\ fp.size <= up_to_size
        /\ helper_size' = fp.size
        /\ hp1' = fp.p1
        /\ hp2' = fp.p2
        /\ hp1s' = ResetArr(hp1s, fp.size)
  /\ UNCHANGED <<g, matchings, last, pc, up_to_size, hp2s, hp2os, stack>>
  /\ UNCHANGED selectorVars
  /\ UNCHANGED chessVars

\* generate_permutations returns for the last pair: free the helper arrays
GenLoopsEnd ==
  /\ pc = "p1_loop"
  /\ ~ (hp1s[0] < p1_size - helper_size + 1)
  /\ LET fp == first_pair(helper_size, hp1, hp2 + 1, g.partitions, up_to_size)
     IN /\ fp.size > up_to_size
        /\ helper_size' = fp.size
        /\ hp1' = fp.p1
        /\ hp2' = fp.p2
  /\ hp1s' = <<>>
  /\ hp2s' = <<>>
  /\ hp2os' = <<>>
  /\ pc' = "prune"
  /\ UNCHANGED <<g, matchings, last, up_to_size, stack>>
  /\ UNCHANGED selectorVars
  /\ UNCHANGED chessVars

\* a right subset: reset the ordering and call generate_subset_permutations(0)
GenRunSubset ==
  /\ pc = "p2_loop"
  /\ hp2s[0] < p2_size - helper_size + 1
  /\ hp2os' = ResetArr(hp2os, helper_size)
  /\ stack' = <<0>>
  /\ pc' = "perm"
  /\ UNCHANGED <<g, matchings, last, up_to_size, helper_size, hp1, hp2, hp1s, hp2s>>
  /\ UNCHANGED selectorVars
  /\ UNCHANGED chessVars

\* no right subset is left: permute_p1
GenP2End ==
  /\ pc = "p2_loop"
  /\ ~ (hp2s[0] < p2_size - helper_size + 1)
  /\ hp1s' = next_subset(hp1s, helper_size, p1_size)
  /\ pc' = "p1_loop"
  /\ UNCHANGED <<g, matchings, last, up_to_size, helper_size, hp1, hp2, hp2s,
                 hp2os, stack>>
  /\ UNCHANGED selectorVars
  /\ UNCHANGED chessVars

lo == Len(stack) - 1

loop_i == stack[Len(stack)]

\* the callee returned: the caller runs "swap:" and its i++
Resume(stk, p2os) ==
  LET plo == Len(stk) - 2
      pi  == stk[Len(stk) - 1]
  IN [ stack |-> [SubSeq(stk, 1, Len(stk) - 1) EXCEPT ![Len(stk) - 1] = pi + 1],
       hp2os |-> Swap(p2os, plo, pi) ]

\* a loop iteration that swaps, finds the pair usable and recurses
PermRecurse ==
  /\ pc = "perm"
  /\ lo < helper_size - 1
  /\ loop_i < helper_size
  /\ LET swapped == Swap(hp2os, lo, loop_i)
     IN /\ may_recurse(matchings, g, helper_size, hp1, hp2, hp1s, hp2s, swapped, lo)
        /\ hp2os' = swapped
        /\ stack' = Append(stack, lo + 1)
  /\ UNCHANGED <<g, matchings, last, pc, up_to_size, helper_size, hp1, hp2, hp1s, hp2s>>
  /\ UNCHANGED selectorVars
  /\ UNCHANGED chessVars

\* a loop iteration that swaps, abandons the branch and swaps back
PermSkip ==
  /\ pc = "perm"
  /\ lo < helper_size - 1
  /\ loop_i < helper_size
  /\ LET swapped == Swap(hp2os, lo, loop_i)
     IN /\ ~ may_recurse(matchings, g, helper_size, hp1, hp2, hp1s, hp2s, swapped, lo)
        /\ hp2os' = Swap(swapped, lo, loop_i)
        /\ stack' = [stack EXCEPT ![Len(stack)] = loop_i + 1]
  /\ UNCHANGED <<g, matchings, last, pc, up_to_size, helper_size, hp1, hp2, hp1s, hp2s>>
  /\ UNCHANGED selectorVars
  /\ UNCHANGED chessVars

\* the last position: store the ordering or drop it, and return
PermLeaf ==
  /\ pc = "perm"
  /\ lo = helper_size - 1
  /\ matchings' = leaf_store(matchings, g, helper_size, hp1, hp2, hp1s, hp2s, hp2os)
  /\ LET r == Resume(stack, hp2os)
     IN /\ stack' = r.stack
        /\ hp2os' = r.hp2os
  /\ UNCHANGED <<g, last, pc, up_to_size, helper_size, hp1, hp2, hp1s, hp2s>>
  /\ UNCHANGED selectorVars
  /\ UNCHANGED chessVars

\* the for loop of an inner call is over: return
PermReturn ==
  /\ pc = "perm"
  /\ lo < helper_size - 1
  /\ lo > 0
  /\ loop_i >= helper_size
  /\ LET r == Resume(stack, hp2os)
     IN /\ stack' = r.stack
        /\ hp2os' = r.hp2os
  /\ UNCHANGED <<g, matchings, last, pc, up_to_size, helper_size, hp1, hp2, hp1s, hp2s>>
  /\ UNCHANGED selectorVars
  /\ UNCHANGED chessVars

\* generate_subset_permutations(0) is over: step to the next right subset
PermEnd ==
  /\ pc = "perm"
  /\ lo = 0
  /\ loop_i >= helper_size
  /\ hp2s' = next_subset(hp2s, helper_size, p2_size)
  /\ stack' = <<>>
  /\ pc' = "p2_loop"
  /\ UNCHANGED <<g, matchings, last, up_to_size, helper_size, hp1, hp2, hp1s, hp2os>>
  /\ UNCHANGED selectorVars
  /\ UNCHANGED chessVars

\* remove the matchings that have a single ordering, and return
PruneSingletons ==
  /\ pc = "prune"
  /\ matchings' = prune_singletons(matchings, g)
  /\ pc' = "enumerated"
  /\ UNCHANGED <<g, last>>
  /\ UNCHANGED helperVars
  /\ UNCHANGED selectorVars
  /\ UNCHANGED chessVars

-----------------------------------------------------------------------------
(* bipartgen.c: the blocked clauses of write_cnf_from_graph *)

BLOCKED_CLAUSE_PROB_DENOM == 1000

\* enum perfect_matching_blocking_method
ALL == 0

PROB == 1

COUNT == 2

NULL == 0

\* the pairs (blocking_method, blocked_clause_prob) that the options give:
\* no -B, -B 0.5, -B 1 and -B 2
MethodChoices == {<<ALL, 0>>, <<PROB, 500>>, <<COUNT, 1>>, <<COUNT, 2>>}

\* values that rand() returns
RandChoices == {7, 1500}

get_variableID(G, p1, n1, p2, n2) ==
  LET s   == IF p1 < p2 THEN p2 ELSE p1
      n1N == IF p1 < p2 THEN n1 ELSE n2
      n2N == IF p1 < p2 THEN n2 ELSE n1
  IN 1 + n2N + (graph_get_partition_sizes(G)[s] * n1N)

\* int blocked_edges[p1_size][p2_size], all 0
ZeroGrid(G) ==
  [a \in 0..(G.partition_sizes[0] - 1) |-> [b \in 0..(G.partition_sizes[1] - 1) |-> 0]]

\* a cursor is a matching list h and the position m of a record in it
graph_get_first_matching(h) == [h |-> first_matching(h), m |-> 1]

graph_get_next_matching(h, m) ==
  IF h.list[m].iterator = Len(h.list[m].orderings)
  THEN IF m < Len(h.list)
       THEN [h |-> [h EXCEPT !.list[m + 1].iterator = 1], m |-> m + 1]
       ELSE [h |-> h, m |-> NULL]
  ELSE [h |-> [h EXCEPT !.list[m].iterator = @ + 1], m |-> m]

graph_get_prev_matching(h, m) ==
  IF h.list[m].iterator = 1
  THEN IF m > 1
       THEN [h |-> [h EXCEPT !.list[m - 1].iterator = Len(h.list[m - 1].orderings)],
             m |-> m - 1]
       ELSE [h |-> h, m |-> NULL]
  ELSE [h |-> [h EXCEPT !.list[m].iterator = @ - 1], m |-> m]

graph_get_next_set(h, m) == IF m < Len(h.list) THEN m + 1 ELSE NULL

graph_get_matching_ordered_right_nodes(h, m) == h.list[m].orderings[h.list[m].iterator]

\* the grid test that looks at the edge of position 0 only
grid_hit_first_edge(grid, rec, p2o) ==
  grid[rec.p1_nodes[0]][rec.p2_nodes[p2o[0]]] # 0

\* some edge (p1s[n], p2s[p2o[n]]) has a nonzero entry in the grid
grid_hit(grid, rec, p2o) ==
  \E n \in 0..(rec.size - 1) : grid[rec.p1_nodes[n]][rec.p2_nodes[p2o[n]]] # 0

\* grid[p1s[n]][p2s[p2o[n]]]++ for n = 0..size-1
grid_mark(grid, rec, p2o) ==
  [a \in DOMAIN grid |-> [b \in DOMAIN grid[a] |->
     grid[a][b] + Cardinality({ n \in 0..(rec.size - 1) :
                                  rec.p1_nodes[n] = a /\ rec.p2_nodes[p2o[n]] = b })]]

\* the literals of the pairs (p1s[n], p2s[n]), the ordering left aside
blocking_clause_unordered(G, rec, p2o) ==
  [n \in 1..rec.size |->
     0 - get_variableID(G, 0, rec.p1_nodes[n - 1], 1, rec.p2_nodes[n - 1])]

\* the literals "-%d " written for one ordering
blocking_clause(G, rec, p2o) ==
  [n \in 1..rec.size |->
     0 - get_variableID(G, 0, rec.p1_nodes[n - 1], 1, rec.p2_nodes[p2o[n - 1]])]

\* "Look for a witness first": the loop over mi
RECURSIVE find_witness(_, _, _, _, _)
find_witness(h, m, mi, rec, blocked) ==
  IF mi >= rec.num_orderings
  THEN [found_witness |-> 0, witness_idx |-> 0, mi |-> mi, h |-> h, m |-> m, p2o |-> <<>>]
  ELSE LET p2o == graph_get_matching_ordered_right_nodes(h, m)
       IN IF ~ grid_hit(blocked, rec, p2o)
          THEN [found_witness |-> 1, witness_idx |-> mi, mi |-> mi, h |-> h, m |-> m,
                p2o |-> p2o]
          ELSE LET nx == graph_get_next_matching(h, m)
               IN find_witness(nx.h, nx.m, mi + 1, rec, blocked)

\* the rewind that stops one step early: for (; mi > 1; mi--)
RECURSIVE rewind_one_short(_, _, _)
rewind_one_short(h, m, mi) ==
  IF mi > 1
  THEN LET pv == graph_get_prev_matching(h, m) IN rewind_one_short(pv.h, pv.m, mi - 1)
  ELSE [h |-> h, m |-> m]

\* for (; mi > 0; mi--) m = graph_get_prev_matching(m)
RECURSIVE rewind(_, _, _)
rewind(h, m, mi) ==
  IF mi > 0
  THEN LET pv == graph_get_prev_matching(h, m) IN rewind(pv.h, pv.m, mi - 1)
  ELSE [h |-> h, m |-> m]

\* count pass, "block remaining": S holds h, m, both grids, matchings_blocked
\* and the indices mi that were blocked
RECURSIVE count_blocking(_, _, _, _)
count_blocking(S, mi, witness_idx, rec) ==
  IF mi >= rec.num_orderings THEN S
  ELSE LET nx == graph_get_next_matching(S.h, S.m)
       IN IF mi = witness_idx
          THEN count_blocking([S EXCEPT !.h = nx.h, !.m = nx.m], mi + 1, witness_idx, rec)
          ELSE LET p2o == graph_get_matching_ordered_right_nodes(S.h, S.m)
               IN IF ~ grid_hit(S.witness_edges, rec, p2o)
                  THEN count_blocking(
                         [S EXCEPT !.h = nx.h, !.m = nx.m,
                                   !.matchings_blocked = @ + 1,
                                   !.blocked_edges = grid_mark(@, rec, p2o),
                                   !.blocked = Append(@, mi)],
                         mi + 1, witness_idx, rec)
                  ELSE count_blocking([S EXCEPT !.h = nx.h, !.m = nx.m],
                                      mi + 1, witness_idx, rec)

\* count pass, one record under avoid_blocking_overlap
count_avoid_overlap(h, m, blocked_grid, witness_grid, n_blocked) ==
  LET rec == h.list[m]
      fw  == find_witness(h, m, 0, rec, blocked_grid)
  IN IF fw.found_witness = 1
     THEN LET rw == rewind(fw.h, fw.m, fw.mi)
          IN count_blocking(
               [h |-> rw.h, m |-> rw.m, blocked_edges |-> blocked_grid,
                witness_edges |-> grid_mark(witness_grid, rec, fw.p2o),
                matchings_blocked |-> n_blocked, blocked |-> <<>>,
                found_witness |-> 1, witness_idx |-> fw.witness_idx],
               0, fw.witness_idx, rec)
     ELSE [h |-> fw.h, m |-> fw.m, blocked_edges |-> blocked_grid,
           witness_edges |-> witness_grid, matchings_blocked |-> n_blocked,
           blocked |-> <<>>, found_witness |-> 0, witness_idx |-> 0]

\* the indices n of the loop whose draw is below blocked_clause_prob
RECURSIVE drawn_below(_, _, _)
drawn_below(draws, n, prob) ==
  IF n >= Len(draws) THEN <<>>
  ELSE IF draws[n + 1] % BLOCKED_CLAUSE_PROB_DENOM < prob
       THEN <<n>> \o drawn_below(draws, n + 1, prob)
       ELSE drawn_below(draws, n + 1, prob)

\* count pass, one record under PROB: draws are the values rand() returns
count_prob(h, m, n_blocked, draws, prob) ==
  [h |-> h, m |-> graph_get_next_set(h, m),
   matchings_blocked |-> n_blocked + Len(drawn_below(draws, 0, prob)),
   blocked |-> drawn_below(draws, 0, prob)]

\* the count that adds num_similar instead of num_similar - 1
count_all_num_similar(h, m, n_blocked) ==
  [h |-> h, m |-> graph_get_next_set(h, m),
   matchings_blocked |-> n_blocked + graph_get_num_similar_matchings(h.list[m]),
   blocked |-> [n \in 1..(graph_get_num_similar_matchings(h.list[m]) - 1) |-> n - 1]]

\* count pass, one record otherwise: matchings_blocked += num_similar - 1
count_all(h, m, n_blocked) ==
  [h |-> h, m |-> graph_get_next_set(h, m),
   matchings_blocked |-> n_blocked + (graph_get_num_similar_matchings(h.list[m]) - 1),
   blocked |-> [n \in 1..(graph_get_num_similar_matchings(h.list[m]) - 1) |-> n - 1]]

\* "block remaining" without the test of witness_edges
RECURSIVE emit_blocking_untested(_, _, _, _, _)
emit_blocking_untested(S, mi, witness_idx, rec, G) ==
  IF mi >= rec.num_orderings THEN S
  ELSE LET nx == graph_get_next_matching(S.h, S.m)
       IN IF mi = witness_idx
          THEN emit_blocking_untested([S EXCEPT !.h = nx.h, !.m = nx.m],
                                      mi + 1, witness_idx, rec, G)
          ELSE LET p2o == graph_get_matching_ordered_right_nodes(S.h, S.m)
               IN emit_blocking_untested(
                    [S EXCEPT !.h = nx.h, !.m = nx.m,
                              !.blocked_edges = grid_mark(@, rec, p2o),
                              !.clauses = Append(@, blocking_clause(G, rec, p2o)),
                              !.blocked = Append(@, mi)],
                    mi + 1, witness_idx, rec, G)

\* emit pass, "block remaining": S also holds the clauses written
RECURSIVE emit_blocking(_, _, _, _, _)
emit_blocking(S, mi, witness_idx, rec, G) ==
  IF mi >= rec.num_orderings THEN S
  ELSE LET nx == graph_get_next_matching(S.h, S.m)
       IN IF mi = witness_idx
          THEN emit_blocking([S EXCEPT !.h = nx.h, !.m = nx.m], mi + 1, witness_idx, rec, G)
          ELSE LET p2o == graph_get_matching_ordered_right_nodes(S.h, S.m)
               IN IF ~ grid_hit(S.witness_edges, rec, p2o)
                  THEN emit_blocking(
                         [S EXCEPT !.h = nx.h, !.m = nx.m,
                                   !.blocked_edges = grid_mark(@, rec, p2o),
                                   !.clauses = Append(@, blocking_clause(G, rec, p2o)),
                                   !.blocked = Append(@, mi)],
                         mi + 1, witness_idx, rec, G)
                  ELSE emit_blocking([S EXCEPT !.h = nx.h, !.m = nx.m],
                                     mi + 1, witness_idx, rec, G)

\* the emit that takes the first ordering as witness when the search finds none
emit_avoid_overlap_forced_witness(h, m, blocked_grid, witness_grid, G) ==
  LET rec == h.list[m]
      fw  == find_witness(h, m, 0, rec, blocked_grid)
  IN IF fw.found_witness = 1
     THEN LET rw == rewind(fw.h, fw.m, fw.mi)
          IN emit_blocking(
               [h |-> rw.h, m |-> rw.m, blocked_edges |-> blocked_grid,
                witness_edges |-> grid_mark(witness_grid, rec, fw.p2o),
                clauses |-> <<>>, blocked |-> <<>>,
                found_witness |-> 1, witness_idx |-> fw.witness_idx],
               0, fw.witness_idx, rec, G)
     ELSE [h |-> fw.h, m |-> fw.m, blocked_edges |-> blocked_grid,
           witness_edges |-> grid_mark(witness_grid, rec, rec.orderings[1]),
           clauses |-> <<>>, blocked |-> <<>>,
           found_witness |-> 0, witness_idx |-> 0]

\* emit pass, one record under avoid_blocking_overlap
emit_avoid_overlap(h, m, blocked_grid, witness_grid, G) ==
  LET rec == h.list[m]
      fw  == find_witness(h, m, 0, rec, blocked_grid)
  IN IF fw.found_witness = 1
     THEN LET rw == rewind(fw.h, fw.m, fw.mi)
          IN emit_blocking(
               [h |-> rw.h, m |-> rw.m, blocked_edges |-> blocked_grid,
                witness_edges |-> grid_mark(witness_grid, rec, fw.p2o),
                clauses |-> <<>>, blocked |-> <<>>,
                found_witness |-> 1, witness_idx |-> fw.witness_idx],
               0, fw.witness_idx, rec, G)
     ELSE [h |-> fw.h, m |-> fw.m, blocked_edges |-> blocked_grid,
           witness_edges |-> witness_grid, clauses |-> <<>>, blocked |-> <<>>,
           found_witness |-> 0, witness_idx |-> 0]

\* emit pass under PROB: for (n = 0; n < num_similar - 1; n++)
RECURSIVE emit_prob_loop(_, _, _, _, _, _)
emit_prob_loop(S, n, rec, draws, prob, G) ==
  IF n >= rec.num_orderings - 1 THEN S
  ELSE LET nx  == graph_get_next_matching(S.h, S.m)
           p2o == graph_get_matching_ordered_right_nodes(nx.h, nx.m)
       IN IF draws[n + 1] % BLOCKED_CLAUSE_PROB_DENOM < prob
          THEN emit_prob_loop([S EXCEPT !.h = nx.h, !.m = nx.m,
                                        !.clauses = Append(@, blocking_clause(G, rec, p2o)),
                                        !.blocked = Append(@, n)],
                              n + 1, rec, draws, prob, G)
          ELSE emit_prob_loop([S EXCEPT !.h = nx.h, !.m = nx.m], n + 1, rec, draws, prob, G)

\* emit pass, one record under PROB
emit_prob(h, m, draws, prob, G) ==
  LET S  == emit_prob_loop([h |-> h, m |-> m, clauses |-> <<>>, blocked |-> <<>>],
                           0, h.list[m], draws, prob, G)
      nx == graph_get_next_matching(S.h, S.m)
  IN [S EXCEPT !.h = nx.h, !.m = nx.m]

\* "Block all but one in this set": for (m_idx = 0; m_idx < num_similar - 1; m_idx++)
RECURSIVE emit_all_loop(_, _, _, _)
emit_all_loop(S, m_idx, rec, G) ==
  IF m_idx >= rec.num_orderings - 1 THEN S
  ELSE LET nx  == graph_get_next_matching(S.h, S.m)
           p2o == graph_get_matching_ordered_right_nodes(nx.h, nx.m)
       IN emit_all_loop([S EXCEPT !.h = nx.h, !.m = nx.m,
                                  !.clauses = Append(@, blocking_clause(G, rec, p2o)),
                                  !.blocked = Append(@, m_idx)],
                        m_idx + 1, rec, G)

\* the emit that also writes the clause of the ordering the cursor starts at
emit_all_none_kept(h, m, G) ==
  LET first == blocking_clause(G, h.list[m], graph_get_matching_ordered_right_nodes(h, m))
      S  == emit_all_loop([h |-> h, m |-> m, clauses |-> <<first>>, blocked |-> <<0>>],
                          0, h.list[m], G)
      nx == graph_get_next_matching(S.h, S.m)
  IN [S EXCEPT !.h = nx.h, !.m = nx.m]

\* the emit that under COUNT stops writing after blocked_clause_prob clauses
emit_all_counted(h, m, G) ==
  LET S  == emit_all_loop([h |-> h, m |-> m, clauses |-> <<>>, blocked |-> <<>>],
                          0, h.list[m], G)
      nx == graph_get_next_matching(S.h, S.m)
      kept == IF blocking_method = COUNT /\ blocked_clause_prob < Len(S.clauses)
              THEN blocked_clause_prob ELSE Len(S.clauses)
  IN [S EXCEPT !.h = nx.h, !.m = nx.m,
               !.clauses = SubSeq(@, 1, kept), !.blocked = SubSeq(@, 1, kept)]

\* emit pass, one record otherwise
emit_all(h, m, G) ==
  LET S  == emit_all_loop([h |-> h, m |-> m, clauses |-> <<>>, blocked |-> <<>>],
                          0, h.list[m], G)
      nx == graph_get_next_matching(S.h, S.m)
  IN [S EXCEPT !.h = nx.h, !.m = nx.m]

\* the log entries <<i, m, index>> of one record
Decisions(node, m, blocked) == [j \in 1..Len(blocked) |-> <<node, m, blocked[j]>>]

Written(node, m, S) ==
  [j \in 1..Len(S.blocked) |-> [at |-> <<node, m, S.blocked[j]>>, clause |-> S.clauses[j]]]

\* everything a pass over the matchings writes
passVars == <<matchings, cursor, node_i, blocked_edges, witness_edges, matchings_blocked,
              rand_stream, rand_next, counted, emitted, witnessed>>

\* num_similar - 1 values of rand(): those the seed has fixed already, then fresh ones
Draws(need, fresh) == SubSeq(rand_stream \o fresh, rand_next, rand_next + need - 1)

FreshDraws(need) ==
  LET left == Len(rand_stream) - (rand_next - 1)
  IN [1..(IF left >= need THEN 0 ELSE need - left) -> RandChoices]

\* the options are read, the matchings are there: srand, the grids, the counter
SelectorStart ==
  /\ pc = "enumerated"
  /\ \E mc \in MethodChoices, a \in {0, 1} :
       /\ blocking_method' = mc[1]
       /\ blocked_clause_prob' = mc[2]
       /\ avoid_blocking_overlap' = a
  /\ rand_stream' = <<>>
  /\ rand_next' = 1
  /\ blocked_edges' = ZeroGrid(g)
  /\ witness_edges' = ZeroGrid(g)
  /\ matchings_blocked' = 0
  /\ node_i' = 0
  /\ cursor' = NULL
  /\ counted' = <<>>
  /\ emitted' = <<>>
  /\ witnessed' = {}
  /\ pc' = "count"
  /\ UNCHANGED <<g, matchings, last>>
  /\ UNCHANGED helperVars
  /\ UNCHANGED chessVars

\* count pass: "for i", the test of graph_get_num_matchings, the first matching
CountNode ==
  /\ pc = "count"
  /\ cursor = NULL
  /\ node_i < g.partition_sizes[0]
  /\ IF graph_get_num_matchings(matchings, 0, node_i, 1) > 0
     THEN LET fm == graph_get_first_matching(matchings[0][1][node_i])
          IN /\ matchings' = [matchings EXCEPT ![0][1][node_i] = fm.h]
             /\ cursor' = fm.m
             /\ UNCHANGED node_i
     ELSE /\ node_i' = node_i + 1
          /\ UNCHANGED <<matchings, cursor>>
  /\ UNCHANGED <<blocked_edges, witness_edges, matchings_blocked, rand_stream, rand_next,
                 counted, emitted, witnessed>>
  /\ UNCHANGED <<g, last, pc>>
  /\ UNCHANGED optionVars
  /\ UNCHANGED helperVars
  /\ UNCHANGED chessVars

\* count pass: one turn of "while (m != NULL)" under avoid_blocking_overlap
CountRecordAvoid ==
  /\ pc = "count"
  /\ cursor # NULL
  /\ avoid_blocking_overlap # 0
  /\ LET h == matchings[0][1][node_i]
     IN IF graph_get_num_similar_matchings(h.list[cursor]) < 2
        THEN pc' = "abort" /\ UNCHANGED passVars
        ELSE LET S == count_avoid_overlap(h, cursor, blocked_edges, witness_edges,
                                          matchings_blocked)
             IN /\ matchings' = [matchings EXCEPT ![0][1][node_i] = S.h]
                /\ cursor' = S.m
                /\ node_i' = IF S.m = NULL THEN node_i + 1 ELSE node_i
                /\ blocked_edges' = S.blocked_edges
                /\ witness_edges' = S.witness_edges
                /\ matchings_blocked' = S.matchings_blocked
                /\ counted' = counted \o Decisions(node_i, cursor, S.blocked)
                /\ witnessed' = IF S.found_witness = 1
                                THEN witnessed \cup {<<node_i, cursor, S.witness_idx>>}
                                ELSE witnessed
                /\ UNCHANGED <<pc, rand_stream, rand_next, emitted>>
  /\ UNCHANGED <<g, last>>
  /\ UNCHANGED optionVars
  /\ UNCHANGED helperVars
  /\ UNCHANGED chessVars

\* count pass: one turn of "while (m != NULL)" under PROB
CountRecordProb ==
  /\ pc = "count"
  /\ cursor # NULL
  /\ avoid_blocking_overlap = 0
  /\ blocking_method = PROB
  /\ LET h == matchings[0][1][node_i]
         num_similar == graph_get_num_similar_matchings(h.list[cursor])
     IN IF num_similar < 2
        THEN pc' = "abort" /\ UNCHANGED passVars
        ELSE \E fresh \in FreshDraws(num_similar - 1) :
               LET S == count_prob(h, cursor, matchings_blocked,
                                   Draws(num_similar - 1, fresh), blocked_clause_prob)
               IN /\ cursor' = S.m
                  /\ node_i' = IF S.m = NULL THEN node_i + 1 ELSE node_i
                  /\ matchings_blocked' = S.matchings_blocked
                  /\ rand_stream' = rand_stream \o fresh
                  /\ rand_next' = rand_next + (num_similar - 1)
                  /\ counted' = counted \o Decisions(node_i, cursor, S.blocked)
                  /\ UNCHANGED <<pc, matchings, blocked_edges, witness_edges, emitted,
                                 witnessed>>
  /\ UNCHANGED <<g, last>>
  /\ UNCHANGED optionVars
  /\ UNCHANGED helperVars
  /\ UNCHANGED chessVars

\* count pass: one turn of "while (m != NULL)" under ALL and COUNT
CountRecordAll ==
  /\ pc = "count"
  /\ cursor # NULL
  /\ avoid_blocking_overlap = 0
  /\ blocking_method # PROB
  /\ LET h == matchings[0][1][node_i]
     IN IF graph_get_num_similar_matchings(h.list[cursor]) < 2
        THEN pc' = "abort" /\ UNCHANGED passVars
        ELSE LET S == count_all(h, cursor, matchings_blocked)
             IN /\ cursor' = S.m
                /\ node_i' = IF S.m = NULL THEN node_i + 1 ELSE node_i
                /\ matchings_blocked' = S.matchings_blocked
                /\ counted' = counted \o Decisions(node_i, cursor, S.blocked)
                /\ UNCHANGED <<pc, matchings, blocked_edges, witness_edges, rand_stream,
                               rand_next, emitted, witnessed>>
  /\ UNCHANGED <<g, last>>
  /\ UNCHANGED optionVars
  /\ UNCHANGED helperVars
  /\ UNCHANGED chessVars

\* the count pass is over; the emit pass starts: srand under PROB, the grids
CountEnd ==
  /\ pc = "count"
  /\ cursor = NULL
  /\ node_i >= g.partition_sizes[0]
  /\ pc' = "emit"
  /\ rand_next' = IF blocking_method = PROB THEN 1 ELSE rand_next
  /\ blocked_edges' = ZeroGrid(g)
  /\ witness_edges' = ZeroGrid(g)
  /\ node_i' = 0
  /\ witnessed' = {}
  /\ UNCHANGED <<matchings, cursor, matchings_blocked, rand_stream, counted, emitted>>
  /\ UNCHANGED <<g, last>>
  /\ UNCHANGED optionVars
  /\ UNCHANGED helperVars
  /\ UNCHANGED chessVars

\* emit pass: "for i", the test of graph_get_num_matchings, the first matching
EmitNode ==
  /\ pc = "emit"
  /\ cursor = NULL
  /\ node_i < g.partition_sizes[0]
  /\ IF graph_get_num_matchings(matchings, 0, node_i, 1) > 0
     THEN LET fm == graph_get_first_matching(matchings[0][1][node_i])
          IN /\ matchings' = [matchings EXCEPT ![0][1][node_i] = fm.h]
             /\ cursor' = fm.m
             /\ UNCHANGED node_i
     ELSE /\ node_i' = node_i + 1
          /\ UNCHANGED <<matchings, cursor>>
  /\ UNCHANGED <<blocked_edges, witness_edges, matchings_blocked, rand_stream, rand_next,
                 counted, emitted, witnessed>>
  /\ UNCHANGED <<g, last, pc>>
  /\ UNCHANGED optionVars
  /\ UNCHANGED helperVars
  /\ UNCHANGED chessVars

\* emit pass: one turn of "while (m != NULL)" under avoid_blocking_overlap
EmitRecordAvoid ==
  /\ pc = "emit"
  /\ cursor # NULL
  /\ avoid_blocking_overlap # 0
  /\ LET h == matchings[0][1][node_i]
     IN IF graph_get_num_similar_matchings(h.list[cursor]) < 2
        THEN pc' = "abort" /\ UNCHANGED passVars
        ELSE LET S == emit_avoid_overlap(h, cursor, blocked_edges, witness_edges, g)
             IN /\ matchings' = [matchings EXCEPT ![0][1][node_i] = S.h]
                /\ cursor' = S.m
                /\ node_i' = IF S.m = NULL THEN node_i + 1 ELSE node_i
                /\ blocked_edges' = S.blocked_edges
                /\ witness_edges' = S.witness_edges
                /\ emitted' = emitted \o Written(node_i, cursor, S)
                /\ witnessed' = IF S.found_witness = 1
                                THEN witnessed \cup {<<node_i, cursor, S.witness_idx>>}
                                ELSE witnessed
                /\ UNCHANGED <<pc, matchings_blocked, rand_stream, rand_next, counted>>
  /\ UNCHANGED <<g, last>>
  /\ UNCHANGED optionVars
  /\ UNCHANGED helperVars
  /\ UNCHANGED chessVars

\* emit pass: one turn of "while (m != NULL)" under PROB
EmitRecordProb ==
  /\ pc = "emit"
  /\ cursor # NULL
  /\ avoid_blocking_overlap = 0
  /\ blocking_method = PROB
  /\ LET h == matchings[0][1][node_i]
         num_similar == graph_get_num_similar_matchings(h.list[cursor])
     IN IF num_similar < 2
        THEN pc' = "abort" /\ UNCHANGED passVars
        ELSE \E fresh \in FreshDraws(num_similar - 1) :
               LET S == emit_prob(h, cursor, Draws(num_similar - 1, fresh),
                                  blocked_clause_prob, g)
               IN /\ matchings' = [matchings EXCEPT ![0][1][node_i] = S.h]
                  /\ cursor' = S.m
                  /\ node_i' = IF S.m = NULL THEN node_i + 1 ELSE node_i
                  /\ rand_stream' = rand_stream \o fresh
                  /\ rand_next' = rand_next + (num_similar - 1)
                  /\ emitted' = emitted \o Written(node_i, cursor, S)
                  /\ UNCHANGED <<pc, blocked_edges, witness_edges, matchings_blocked,
                                 counted, witnessed>>
  /\ UNCHANGED <<g, last>>
  /\ UNCHANGED optionVars
  /\ UNCHANGED helperVars
  /\ UNCHANGED chessVars

\* emit pass: one turn of "while (m != NULL)" under ALL and COUNT
EmitRecordAll ==
  /\ pc = "emit"
  /\ cursor # NULL
  /\ avoid_blocking_overlap = 0
  /\ blocking_method # PROB
  /\ LET h == matchings[0][1][node_i]
     IN IF graph_get_num_similar_matchings(h.list[cursor]) < 2
        THEN pc' = "abort" /\ UNCHANGED passVars
        ELSE LET S == emit_all(h, cursor, g)
             IN /\ matchings' = [matchings EXCEPT ![0][1][node_i] = S.h]
                /\ cursor' = S.m
                /\ node_i' = IF S.m = NULL THEN node_i + 1 ELSE node_i
                /\ emitted' = emitted \o Written(node_i, cursor, S)
                /\ UNCHANGED <<pc, blocked_edges, witness_edges, matchings_blocked,
                               rand_stream, rand_next, counted, witnessed>>
  /\ UNCHANGED <<g, last>>
  /\ UNCHANGED optionVars
  /\ UNCHANGED helperVars
  /\ UNCHANGED chessVars

\* the emit pass is over: write_cnf_from_graph returns
EmitEnd ==
  /\ pc = "emit"
  /\ cursor = NULL
  /\ node_i >= g.partition_sizes[0]
  /\ pc' = "done"
  /\ UNCHANGED passVars
  /\ UNCHANGED <<g, last>>
  /\ UNCHANGED optionVars
  /\ UNCHANGED helperVars
  /\ UNCHANGED chessVars

-----------------------------------------------------------------------------
(* graph.c: calls on the matching lists from outside the two passes *)

\* what "m->iterator = m->head" does when m is NULL: undefined behaviour,
\* the process faults or the call returns m
NullDerefOutcomes == {TRUE, FALSE}

\* graph_get_first_matching(g, p1, n1, p2) on any list, before or after the
\* enumeration
GetFirstMatching ==
  /\ pc \in {"build", "enumerated"}
  /\ \E p1 \in Parts(g), p2 \in Parts(g) :
       /\ p1 # p2
       /\ \E n1 \in Nodes(g, p1) :
            LET h == matchings[p1][p2][n1]
            IN IF h.list = <<>>
               THEN \E fault \in NullDerefOutcomes :
                      /\ last' = [op |-> "first_matching", p1 |-> p1, n1 |-> n1,
                                  p2 |-> p2, bucket |-> h, fault |-> fault, ret |-> NULL]
                      /\ pc' = IF fault THEN "fault" ELSE pc
                      /\ UNCHANGED matchings
               ELSE /\ matchings' = [matchings EXCEPT ![p1][p2][n1] =
                                       graph_get_first_matching(h).h]
                    /\ last' = [op |-> "first_matching", p1 |-> p1, n1 |-> n1,
                                p2 |-> p2, bucket |-> h, fault |-> FALSE,
                                ret |-> graph_get_first_matching(h).m]
                    /\ UNCHANGED pc
  /\ UNCHANGED g
  /\ UNCHANGED helperVars
  /\ UNCHANGED selectorVars
  /\ UNCHANGED chessVars

Next ==
  \/ AddEdge
  \/ RemoveEdge
  \/ FullyConnectNode
  \/ FullyConnectPartition
  \/ GenerateStart
  \/ GenPruneSubset
  \/ GenEnterP2
  \/ GenNextPair
  \/ GenLoopsEnd
  \/ GenRunSubset
  \/ GenP2End
  \/ PermRecurse
  \/ PermSkip
  \/ PermLeaf
  \/ PermReturn
  \/ PermEnd
  \/ PruneSingletons
  \/ SelectorStart
  \/ CountNode
  \/ CountRecordAvoid
  \/ CountRecordProb
  \/ CountRecordAll
  \/ CountEnd
  \/ EmitNode
  \/ EmitRecordAvoid
  \/ EmitRecordProb
  \/ EmitRecordAll
  \/ EmitEnd

Spec == Init /\ [][Next]_vars

\* the graph, the enumeration and the calls on the matching lists
NextRepository ==
  \/ AddEdge
  \/ RemoveEdge
  \/ FullyConnectNode
  \/ FullyConnectPartition
  \/ GenerateStart
  \/ GenPruneSubset
  \/ GenEnterP2
  \/ GenNextPair
  \/ GenLoopsEnd
  \/ GenRunSubset
  \/ GenP2End
  \/ PermRecurse
  \/ PermSkip
  \/ PermLeaf
  \/ PermReturn
  \/ PermEnd
  \/ PruneSingletons
  \/ GetFirstMatching

SpecRepository == Init /\ [][NextRepository]_vars

-----------------------------------------------------------------------------
(* Properties of the graph store *)

\* the valid argument tuples (p1, n1, p2, n2) of a graph G
ValidArgs(G) ==
  { a \in (Parts(G) \X (0..8) \X Parts(G) \X (0..8)) :
      /\ a[1] # a[3]
      /\ a[2] \in Nodes(G, a[1])
      /\ a[4] \in Nodes(G, a[3]) }

\* the present edges in canonical form p1 < p2
PresentEdges(G) ==
  { a \in ValidArgs(G) :
      a[1] < a[3] /\ graph_is_edge_between(G, a[1], a[2], a[3], a[4]) = 1 }

\* C7: after any sequence of add, remove and fully-connect calls with valid
\* arguments, the edge test gives the same answer in both argument orders.
C7_Symmetry ==
  \A a \in ValidArgs(g) :
    graph_is_edge_between(g, a[1], a[2], a[3], a[4])
      = graph_is_edge_between(g, a[3], a[4], a[1], a[2])

\* an edge was added with the larger partition first, and another one was
\* removed after it
C7_Witness ==
  /\ last.op = "remove"
  /\ last.pre # g
  /\ \E a \in ValidArgs(g) :
       /\ a[1] > a[3]
       /\ graph_is_edge_between(g, a[1], a[2], a[3], a[4]) = 1

\* the counters and bits a caller can observe
Observable(G) == <<G.edges, G.num_neighbors, G.partition_edges>>

\* C8: adding an edge that is present, or removing an edge that is absent,
\* leaves every edge bit, every num_neighbors counter and every
\* partition_edges counter as it was before the call.
C8_Idempotence ==
  /\ (last.op = "add"
        /\ graph_is_edge_between(last.pre, last.p1, last.n1, last.p2, last.n2) = 1)
       => Observable(g) = Observable(last.pre)
  /\ (last.op = "remove"
        /\ graph_is_edge_between(last.pre, last.p1, last.n1, last.p2, last.n2) = 0)
       => Observable(g) = Observable(last.pre)

\* an absent edge was removed from a graph that holds other edges
C8_Witness ==
  /\ last.op = "remove"
  /\ graph_is_edge_between(last.pre, last.p1, last.n1, last.p2, last.n2) = 0
  /\ PresentEdges(last.pre) # {}

\* the IDs given to the present edges of G
EdgeIds(G) == { graph_get_edge_id(G, a[1], a[2], a[3], a[4]) : a \in PresentEdges(G) }

\* C9: for a k-partite graph with k >= 2, graph_get_edge_id maps the present
\* edges one-to-one onto 1..E, E the number of edges.
C9_EdgeIdBijection ==
  EdgeIds(g) = 1..Cardinality(PresentEdges(g))

\* (a, b) before (c, d) in lexicographic order
LexLess(a, b, c, d) == a < c \/ (a = c /\ b < d)

\* the number of present edges (0,a)-(1,b) with (a, b) before (n1, n2)
EdgesBefore(G, n1, n2) ==
  Cardinality({ e \in PresentEdges(G) : LexLess(e[2], e[4], n1, n2) })

\* the graph pigeon_generate_graph builds for n holes
IsPigeonGraph(G, n) ==
  /\ G.partitions = 2
  /\ G.partition_sizes[0] = n + 1
  /\ G.partition_sizes[1] = n
  /\ \A a \in ValidArgs(G) : graph_is_edge_between(G, a[1], a[2], a[3], a[4]) = 1

\* C10: in a 2-partition graph the ID of a present edge (0,n1)-(1,n2) is one
\* more than the number of present edges that precede it lexicographically,
\* in either argument order; with sizes (n+1, n) fully connected the edge
\* (0,0)-(1,0) has ID 1 and (0,1)-(1,0) has ID n+1.
C10_EdgeIdLexRank ==
  g.partitions = 2 =>
    /\ \A e \in PresentEdges(g) :
         /\ graph_get_edge_id(g, 0, e[2], 1, e[4]) = 1 + EdgesBefore(g, e[2], e[4])
         /\ graph_get_edge_id(g, 1, e[4], 0, e[2]) = 1 + EdgesBefore(g, e[2], e[4])
    /\ \A n \in 1..8 :
         IsPigeonGraph(g, n) =>
           /\ graph_get_edge_id(g, 0, 0, 1, 0) = 1
           /\ graph_get_edge_id(g, 0, 1, 1, 0) = n + 1

\* the pigeonhole graph with 2 holes, built by graph_fully_connect_partition
C10_Witness ==
  /\ last.op = "connect_partition"
  /\ IsPigeonGraph(g, 2)
  /\ graph_get_edge_id(g, 0, 1, 1, 0) = 3

-----------------------------------------------------------------------------
(* Properties of the enumeration *)

\* every (p1, p2, n1) that has a matching list
Buckets(G) ==
  { b \in Parts(G) \X Parts(G) \X (0..8) : b[1] # b[2] /\ b[3] \in Nodes(G, b[1]) }

\* the records of the list of bucket b, by position
RecordsOf(M, b) == { M[b[1]][b[2]][b[3]].list[k] : k \in 1..Len(M[b[1]][b[2]][b[3]].list) }

AllOrderings(m) ==
  { f \in [0..(m - 1) -> 0..(m - 1)] : \A i, j \in 0..(m - 1) : f[i] = f[j] => i = j }

\* every pair (L[t], R[o[t]]) of ordering o is an edge between p1 and p2
AllPairsAreEdges(G, p1, p2, rec, o) ==
  \A t \in 0..(rec.size - 1) :
    graph_is_edge_between(G, p1, rec.p1_nodes[t], p2, rec.p2_nodes[o[t]]) = 1

\* the perfect matchings on the vertex sets of rec
ValidOrderings(G, p1, p2, rec) ==
  { o \in AllOrderings(rec.size) : AllPairsAreEdges(G, p1, p2, rec, o) }

StoredOrderings(rec) == { rec.orderings[k] : k \in 1..Len(rec.orderings) }

Enumerating == pc \in {"p1_loop", "p2_loop", "perm", "prune"}

\* C4: during and after graph_generate_perfect_matchings every stored
\* ordering of a record (m, L, R) of a pair (p1, p2) is a permutation of
\* 0..m-1 whose m pairs (L[t], R[sigma[t]]) are edges.
C4_MatchingSoundness ==
  \A b \in Buckets(g) : \A rec \in RecordsOf(matchings, b) :
    \A o \in StoredOrderings(rec) :
      /\ o \in AllOrderings(rec.size)
      /\ AllPairsAreEdges(g, b[1], b[2], rec, o)

\* the search is under way and a record of size 3 already holds two orderings
C4_Witness ==
  /\ pc = "perm"
  /\ \E b \in Buckets(g) : \E rec \in RecordsOf(matchings, b) :
       rec.size = 3 /\ Len(rec.orderings) >= 2

\* both partitions have n nodes and every pair is an edge
IsComplete(G, n) ==
  /\ G.partitions = 2
  /\ G.partition_sizes[0] = n
  /\ G.partition_sizes[1] = n
  /\ \A a \in ValidArgs(G) : graph_is_edge_between(G, a[1], a[2], a[3], a[4]) = 1

\* the record of bucket (0, 0, 1) that covers all n nodes of both sides
AllNodeRecords(M, n) ==
  { rec \in RecordsOf(M, <<0, 1, 0>>) : rec.size = n }

AgreeSomewhere(o1, o2, m) == \E t \in 0..(m - 1) : o1[t] = o2[t]

Returned == pc \notin {"build", "p1_loop", "p2_loop", "perm", "prune"}

\* C6: when graph_generate_perfect_matchings has returned, no record of a
\* bucket (p1, n1, p2) with p1 < p2 has fewer than 2 orderings, and the
\* assertion num_similar >= 2 of the two passes never fails.
C6_NoSingleton ==
  /\ pc # "abort"
  /\ Returned =>
       \A b \in Buckets(g) :
         b[1] < b[2] =>
           \A rec \in RecordsOf(matchings, b) :
             /\ graph_get_num_similar_matchings(rec) >= 2
             /\ Len(rec.orderings) >= 2

\* nodes 0 and 1 share the neighbours 0 and 1, node 0 alone has neighbour 2:
\* the sets ({0,1}, {0,2}) had one ordering and are gone, ({0,1}, {0,1}) stays
C6_Witness ==
  /\ Returned
  /\ g.partition_sizes[1] = 3
  /\ \A n1 \in 0..1 : \A n2 \in 0..1 : graph_is_edge_between(g, 0, n1, 1, n2) = 1
  /\ graph_is_edge_between(g, 0, 0, 1, 2) = 1
  /\ graph_is_edge_between(g, 0, 1, 1, 2) = 0
  /\ Len(matchings[0][1][0].list) >= 1
  /\ \A rec \in RecordsOf(matchings, <<0, 1, 0>>) : rec.p2_nodes # Arr(<<0, 2>>)

-----------------------------------------------------------------------------
(* Properties of the blocked clauses *)

\* the records of the buckets (0, n, 1), as <<n, position in the list>>
SelectorRecords ==
  { r \in Nodes(g, 0) \X (1..64) : r[2] <= Len(matchings[0][1][r[1]].list) }

RecordAt(r) == matchings[0][1][r[1]].list[r[2]]

EmittedClauses == { emitted[j].clause : j \in 1..Len(emitted) }

\* a pass has gone through every node of partition 0
PassOver ==
  \/ pc = "done"
  \/ pc \in {"count", "emit"} /\ cursor = NULL /\ node_i >= g.partition_sizes[0]

\* C1: after the emit pass, under every policy, every record of every bucket
\* (0, n, 1) has an ordering whose blocking clause was not written.
C1_OneOrderingUnblocked ==
  pc = "done" =>
    \A r \in SelectorRecords :
      \E k \in 1..Len(RecordAt(r).orderings) :
        blocking_clause(g, RecordAt(r), RecordAt(r).orderings[k]) \notin EmittedClauses

\* the emit pass is over and wrote the clauses of two of the three orderings
\* of a record
C1_Witness ==
  /\ pc = "done"
  /\ \E r \in SelectorRecords :
       /\ RecordAt(r).num_orderings = 3
       /\ Cardinality({ j \in 1..Len(emitted) :
                          emitted[j].at[1] = r[1] /\ emitted[j].at[2] = r[2] }) = 2

\* C2: after a pass under avoid_blocking_overlap, every record for which a
\* witness was found has an ordering none of whose edges is marked in the
\* final blocked_edges grid.
C2_WitnessAvoidanceSafety ==
  (avoid_blocking_overlap # 0 /\ PassOver) =>
    \A w \in witnessed :
      \E k \in 1..Len(RecordAt(w).orderings) :
        ~ grid_hit(blocked_edges, RecordAt(w), RecordAt(w).orderings[k])

\* the emit pass is over, two records have a witness, and one of them has an
\* ordering with a marked edge
C2_Witness ==
  /\ pc = "done"
  /\ avoid_blocking_overlap # 0
  /\ Cardinality(witnessed) >= 2
  /\ \E w \in witnessed :
       \E k \in 1..Len(RecordAt(w).orderings) :
         grid_hit(blocked_edges, RecordAt(w), RecordAt(w).orderings[k])

\* C3: both passes read the same rand() values; when the emit pass is over,
\* matchings_blocked of the count pass is the number of clauses written, and
\* the two passes blocked the same orderings of the same records.
C3_CountEmitParity ==
  pc = "done" =>
    /\ matchings_blocked = Len(emitted)
    /\ counted = [j \in 1..Len(emitted) |-> emitted[j].at]

\* a PROB run in which some draws blocked an ordering and some did not
C3_Witness ==
  /\ pc = "done"
  /\ blocking_method = PROB
  /\ avoid_blocking_overlap = 0
  /\ matchings_blocked >= 1
  /\ Len(rand_stream) > matchings_blocked
  /\ Len(emitted) = matchings_blocked

-----------------------------------------------------------------------------
(* Worked example: two partitions of size 2, fully connected *)

\* C11: for K_{2,2} and up_to_size = 2, when the enumeration has returned
\* there is exactly one record, under root 0, with L = [0,1], R = [0,1] and
\* the orderings [0,1], [1,0] in this order; the ALL policy writes exactly
\* one blocking clause for it.
C11_K22Example ==
  (IsComplete(g, 2) /\ up_to_size = 2 /\ Returned) =>
    /\ Len(matchings[0][1][0].list) = 1
    /\ matchings[0][1][1].list = <<>>
    /\ matchings[0][1][0].list[1].size = 2
    /\ matchings[0][1][0].list[1].p1_nodes = Arr(<<0, 1>>)
    /\ matchings[0][1][0].list[1].p2_nodes = Arr(<<0, 1>>)
    /\ matchings[0][1][0].list[1].orderings = <<Arr(<<0, 1>>), Arr(<<1, 0>>)>>
    /\ (pc = "done" /\ blocking_method = ALL /\ avoid_blocking_overlap = 0) =>
         /\ Len(emitted) = 1
         /\ emitted[1].at[1] = 0
         /\ emitted[1].at[2] = 1

\* K_{2,2} went through the enumeration and both passes under ALL
C11_Witness ==
  /\ IsComplete(g, 2)
  /\ up_to_size = 2
  /\ pc = "done"
  /\ blocking_method = ALL
  /\ avoid_blocking_overlap = 0
  /\ Len(emitted) = 1
  /\ matchings_blocked = 1

-----------------------------------------------------------------------------
(* Properties of the calls on the matching lists *)

\* C12: graph_get_first_matching on a list that holds no record returns
\* NULL and does not fault.
C12_FirstMatchingNull ==
  (last.op = "first_matching" /\ last.bucket.list = <<>>) =>
    (~ last.fault /\ last.ret = NULL)

-----------------------------------------------------------------------------
(* Properties of graph_create *)

\* C13: graph_create(partitions, nodes) returns a graph without edges that
\* has `partitions` partitions of `nodes` nodes each, also when
\* partitions > nodes.
C13_CreateEqualSizes ==
  last.op = "graph_create" =>
    /\ graph_get_num_partitions(g) = last.partitions
    /\ \A p \in Parts(g) : graph_get_partition_sizes(g)[p] = last.nodes
    /\ \A a \in ValidArgs(g) : graph_is_edge_between(g, a[1], a[2], a[3], a[4]) = 0

-----------------------------------------------------------------------------
(* Properties of the graph of the mutilated chessboard *)

\* the partition of the colour of a square: white is 0, black is 1
ColourPartition(row, col) == IF IS_WHITE(row, col) THEN 0 ELSE 1

\* C14: for a NORMAL board with n even, the graph returned by
\* mchess_generate_graph has the white squares as partition 0 and the black
\* squares as partition 1, and every present square, as node
\* mchess_get_tile_id of its colour's partition, has as many neighbors in
\* the other partition as mchess_get_num_neighbors counts present
\* orthogonal neighbour squares.
C14_ChessNeighborCounts ==
  (pc = "chess_done" /\ board.variant = NORMAL /\ board.n % 2 = 0) =>
    /\ graph_get_num_partitions(g) = 2
    /\ graph_get_partition_sizes(g)[0] = board.white
    /\ graph_get_partition_sizes(g)[1] = board.black
    /\ \A row \in 0..(board.n - 1), col \in 0..(board.n - 1) :
         GET_BIT(board, row, col) = 1 =>
           LET p  == ColourPartition(row, col)
               id == mchess_get_tile_id(board, row, col)
           IN /\ id \in 0..(graph_get_partition_sizes(g)[p] - 1)
              /\ graph_get_num_neighbors(g, p, id, 1 - p)
                   = mchess_get_num_neighbors(board, row, col)

\* a NORMAL board of side 4 was turned into its graph, and it has squares
\* with 2, 3 and 4 present neighbours
C14_Witness ==
  /\ pc = "chess_done"
  /\ board.variant = NORMAL
  /\ board.n = 4
  /\ \A c \in {2, 3, 4} :
       \E row \in 0..3, col \in 0..3 :
         /\ GET_BIT(board, row, col) = 1
         /\ mchess_get_num_neighbors(board, row, col) = c
         /\ graph_get_num_neighbors(g, ColourPartition(row, col),
                                    mchess_get_tile_id(board, row, col),
                                    1 - ColourPartition(row, col)) = c

-----------------------------------------------------------------------------
(* Properties of the counters of the graph store *)

\* the nodes of p2 that the edge test joins to node n1 of p1
EdgeNeighbors(G, p1, n1, p2) ==
  { n2 \in Nodes(G, p2) : graph_is_edge_between(G, p1, n1, p2, n2) = 1 }

\* C15: after any sequence of edge additions and removals, for all distinct
\* partitions p1, p2 and every node n1 of p1, graph_get_num_neighbors is the
\* number of nodes n2 of p2 the edge test joins to n1, and it is the length
\* of the array graph_get_neighbors returns.
C15_NeighborCounter ==
  \A p1 \in Parts(g), p2 \in Parts(g) :
    p1 # p2 =>
      \A n1 \in Nodes(g, p1) :
        /\ graph_get_num_neighbors(g, p1, n1, p2)
             = Cardinality(EdgeNeighbors(g, p1, n1, p2))
        /\ graph_get_neighbors(g, p1, n1, p2).size
             = Cardinality(EdgeNeighbors(g, p1, n1, p2))
        /\ Len(graph_get_neighbors(g, p1, n1, p2).neighbors)
             = Cardinality(EdgeNeighbors(g, p1, n1, p2))

\* an edge was removed from a node that keeps another neighbor, in a graph
\* where a node has lost all its neighbors
C15_Witness ==
  /\ last.op = "remove"
  /\ last.pre # g
  /\ graph_get_num_neighbors(g, last.p1, last.n1, last.p2) = 1
  /\ graph_get_num_neighbors(g, last.p2, last.n2, last.p1) = 0
  /\ Len(graph_get_neighbors(g, last.p1, last.n1, last.p2).neighbors) = 1

\* the sum over j > i and the nodes n of i of num_neighbors[i][j][n]
NeighborSum(G, i) ==
  LET PerPartition ==
        [j \in Parts(G) |->
           IF j > i THEN SumLoop(G.num_neighbors[i][j], 0, G.partition_sizes[i]) ELSE 0]
  IN SumLoop(PerPartition, 0, G.partitions)

\* C16: after any sequence of edge additions and removals, in either
\* argument order, partition_edges[i] is for every partition i the number of
\* present edges between i and the partitions j > i, which is the sum of
\* num_neighbors[i][j][n] over j > i and the nodes n of i.
C16_PartitionEdges ==
  \A i \in Parts(g) :
    /\ g.partition_edges[i] = Cardinality({ a \in PresentEdges(g) : a[1] = i })
    /\ g.partition_edges[i] = NeighborSum(g, i)

\* an edge given with its larger partition first was removed, and edges of
\* the smaller partition remain
C16_Witness ==
  /\ last.op = "remove"
  /\ last.pre # g
  /\ last.p1 > last.p2
  /\ g.partition_edges[last.p2] >= 1
  /\ \E a \in PresentEdges(g) : a[1] = last.p2

-----------------------------------------------------------------------------
(* graph.c: graph_generate_perfect_matchings as one function of the graph *)

RECURSIVE perm_call(_, _, _, _)
RECURSIVE perm_loop(_, _, _, _, _)
\* generate_subset_permutations(lo); c holds helper_g, helper_size, hp1, hp2,
\* hp1s and hp2s; returns the matching lists and hp2os
perm_call(M, c, p2os, lo_) ==
  IF lo_ = c.size - 1
  THEN [ M  |-> leaf_store(M, c.G, c.size, c.p1, c.p2, c.p1s, c.p2s, p2os),
         os |-> p2os ]
  ELSE perm_loop(M, c, p2os, lo_, lo_)

\* "for (int i = lo; i < helper_size; i++)" from i on
perm_loop(M, c, p2os, lo_, i) ==
  IF i >= c.size THEN [M |-> M, os |-> p2os]
  ELSE LET swapped == Swap(p2os, lo_, i)
           r == IF may_recurse(M, c.G, c.size, c.p1, c.p2, c.p1s, c.p2s, swapped, lo_)
                THEN perm_call(M, c, swapped, lo_ + 1)
                ELSE [M |-> M, os |-> swapped]
       IN perm_loop(r.M, c, Swap(r.os, lo_, i), lo_, i + 1)

\* "while (hp2s[0] < p2_size - helper_size + 1)" of generate_permutations
RECURSIVE right_subsets(_, _, _, _, _, _, _)
right_subsets(M, G, size, p1, p2, p1s, p2s) ==
  IF ~ (p2s[0] < G.partition_sizes[p2] - size + 1) THEN M
  ELSE LET c == [G |-> G, size |-> size, p1 |-> p1, p2 |-> p2, p1s |-> p1s, p2s |-> p2s]
       IN right_subsets(perm_call(M, c, ResetArr(AllocInts(size), size), 0).M,
                        G, size, p1, p2, p1s,
                        next_subset(p2s, size, G.partition_sizes[p2]))

\* "while (hp1s[0] < p1_size - helper_size + 1)" of generate_permutations;
\* prunes = FALSE leaves out the two "goto permute_p1" tests
RECURSIVE left_subsets(_, _, _, _, _, _, _)
left_subsets(M, G, size, p1, p2, p1s, prunes) ==
  IF ~ (p1s[0] < G.partition_sizes[p1] - size + 1) THEN M
  ELSE IF prunes /\ subset_pruned(G, size, p1s)
       THEN left_subsets(M, G, size, p1, p2,
                         next_subset(p1s, size, G.partition_sizes[p1]), prunes)
       ELSE left_subsets(right_subsets(M, G, size, p1, p2, p1s,
                                       ResetArr(AllocInts(size), size)),
                         G, size, p1, p2,
                         next_subset(p1s, size, G.partition_sizes[p1]), prunes)

\* the three for loops of graph_generate_perfect_matchings from (size, p1, p2) on
RECURSIVE pair_loops(_, _, _, _, _, _, _)
pair_loops(M, G, size, p1, p2, up, prunes) ==
  LET fp == first_pair(size, p1, p2, G.partitions, up)
  IN IF fp.size > up THEN M
     ELSE pair_loops(left_subsets(M, G, fp.size, fp.p1, fp.p2,
                                  ResetArr(AllocInts(fp.size), fp.size), prunes),
                     G, fp.size, fp.p1, fp.p2 + 1, up, prunes)

\* the matching lists after graph_generate_perfect_matchings(g, up) on a
\* fresh graph
generate_perfect_matchings(G, up, prunes) ==
  prune_singletons(pair_loops(create_matchings(G.partitions, G.partition_sizes),
                              G, 2, 0, 1, up, prunes), G)

\* partition sizes of the graphs with more than two partitions
PartiteSizeChoices == {<<2, 1, 2>>, <<2, 2, 2>>, <<3, 1, 3>>}

\* graph_add_edge for each edge of the set S
RECURSIVE AddEdges(_, _)
AddEdges(G, S) ==
  IF S = {} THEN G
  ELSE LET a == CHOOSE x \in S : TRUE
       IN AddEdges(graph_add_edge(G, a[1], a[2], a[3], a[4]), S \ {a})

\* the edge sets tried on a fresh graph: any set of edges, but with three
\* nodes in partition 0 all edges between the partitions 0 and 2 are there
EdgeSetChoices(empty) ==
  LET all  == { a \in ValidArgs(empty) : a[1] < a[3] }
      full == IF empty.partition_sizes[0] = 3
              THEN { a \in all : a[1] = 0 /\ a[3] = 2 } ELSE {}
  IN { S \in SUBSET all : full \subseteq S }

\* a graph of one of the sizes with one of the edge sets, and no matching yet
InitPartite ==
  /\ \E sizes \in PartiteSizeChoices :
       LET empty == graph_create_with_sizes(Len(sizes), Arr(sizes))
       IN /\ \E S \in EdgeSetChoices(empty) : g = AddEdges(empty, S)
          /\ matchings = create_matchings(Len(sizes), Arr(sizes))
  /\ last = NoCall
  /\ pc = "build"
  /\ HelpersAtStart
  /\ SelectorAtStart
  /\ ChessAtStart

NextPartite ==
  \/ GenerateStart
  \/ GenPruneSubset
  \/ GenEnterP2
  \/ GenNextPair
  \/ GenLoopsEnd
  \/ GenRunSubset
  \/ GenP2End
  \/ PermRecurse
  \/ PermSkip
  \/ PermLeaf
  \/ PermReturn
  \/ PermEnd
  \/ PruneSingletons

SpecPartite == InitPartite /\ [][NextPartite]_vars

-----------------------------------------------------------------------------
(* Properties of the shared-neighbourhood prunes *)

\* the enumeration taken step by step ends with the lists that
\* generate_perfect_matchings computes in one go
StepsAgreeWithFunction ==
  pc = "enumerated" => matchings = generate_perfect_matchings(g, up_to_size, TRUE)

\* C17: for every graph with two or more partitions and every up_to_size,
\* the matching lists that graph_generate_perfect_matchings leaves are the
\* ones the same enumeration leaves without the m = 2 and m = 3
\* shared-neighbourhood prunes.
C17_PrunesOnlyOptimize ==
  pc = "enumerated" => matchings = generate_perfect_matchings(g, up_to_size, FALSE)

\* the same statement for the graphs of two partitions
PrunesOnlyOptimizeBipartite ==
  (pc = "enumerated" /\ g.partitions = 2) =>
    matchings = generate_perfect_matchings(g, up_to_size, FALSE)

-----------------------------------------------------------------------------
(* Properties of the records during and after the enumeration *)

\* C18: at every point during and after the enumeration, two distinct
\* orderings of one record agree at no position t (they share no edge), so
\* no two orderings of a record are the same permutation.
C18_OrderingsShareNoEdge ==
  \A b \in Buckets(g) : \A rec \in RecordsOf(matchings, b) :
    /\ \A k, l \in 1..Len(rec.orderings) :
         k # l => \A t \in 0..(rec.size - 1) : rec.orderings[k][t] # rec.orderings[l][t]
    /\ Cardinality(StoredOrderings(rec)) = Len(rec.orderings)

\* the enumeration has returned with a record of size 3 that holds three
\* orderings out of more than three perfect matchings on its vertex sets
C18_Witness ==
  /\ pc = "enumerated"
  /\ \E b \in Buckets(g) : \E rec \in RecordsOf(matchings, b) :
       /\ rec.size = 3
       /\ Len(rec.orderings) = 3
       /\ Cardinality(ValidOrderings(g, b[1], b[2], rec)) > 3

\* the entries 0..m-1 of arr are strictly ascending
StrictlyAscending(arr, m) == \A i \in 0..(m - 2) : arr[i] < arr[i + 1]

\* the vertex sets of a record
SetsOf(rec) == <<rec.size, rec.p1_nodes, rec.p2_nodes>>

\* C19: at every point during and after the enumeration, every record of
\* the bucket (p1, n, p2) has L[0] = n, its L and its R are strictly
\* ascending, and no bucket of another node of its L holds a record with its
\* vertex sets.
C19_FiledUnderSmallestLeft ==
  \A b \in Buckets(g) : \A rec \in RecordsOf(matchings, b) :
    /\ rec.p1_nodes[0] = b[3]
    /\ StrictlyAscending(rec.p1_nodes, rec.size)
    /\ StrictlyAscending(rec.p2_nodes, rec.size)
    /\ \A t \in 1..(rec.size - 1) :
         \A other \in RecordsOf(matchings, <<b[1], b[2], rec.p1_nodes[t]>>) :
           SetsOf(other) # SetsOf(rec)

\* the bucket of node 0 holds a record whose L has node 1, and the bucket of
\* node 1 holds a record of its own
C19_Witness ==
  /\ pc = "enumerated"
  /\ \E rec \in RecordsOf(matchings, <<0, 1, 0>>) : rec.p1_nodes[1] = 1
  /\ \E rec \in RecordsOf(matchings, <<0, 1, 1>>) : rec.p1_nodes[1] = 2

\* the first m entries of a come before those of b in lexicographic order
ArrLess(a, b, m) ==
  \E i \in 0..(m - 1) : a[i] < b[i] /\ \A j \in 0..(i - 1) : a[j] = b[j]

\* r1 comes before r2 in the order of (m, L, R)
RecordBefore(r1, r2) ==
  \/ r1.size < r2.size
  \/ /\ r1.size = r2.size
     /\ \/ ArrLess(r1.p1_nodes, r2.p1_nodes, r1.size)
        \/ /\ r1.p1_nodes = r2.p1_nodes
           /\ ArrLess(r1.p2_nodes, r2.p2_nodes, r1.size)

\* generate_subset_permutations is at its leaf with the final edge present
AboutToStore ==
  /\ pc = "perm"
  /\ lo = helper_size - 1
  /\ graph_is_edge_between(g, hp1, hp1s[lo], hp2, hp2s[hp2os[lo]]) = 1

\* C20: when a completed ordering for (m, L, R) is about to be stored, a
\* record with these (m, L, R) is in the bucket only as its tail; and every
\* bucket is strictly increasing in (m, L, R), so it never holds two records
\* with the same (m, L, R).
C20_BucketSortedTailOnly ==
  /\ AboutToStore =>
       LET list == matchings[hp1][hp2][hp1s[0]].list
       IN \A k \in 1..Len(list) :
            SetsOf(list[k]) = <<helper_size, Prefix(hp1s, helper_size),
                                Prefix(hp2s, helper_size)>>
              => k = Len(list)
  /\ \A b \in Buckets(g) :
       LET list == matchings[b[1]][b[2]][b[3]].list
       IN \A k, l \in 1..Len(list) :
            k < l => /\ RecordBefore(list[k], list[l])
                     /\ SetsOf(list[k]) # SetsOf(list[l])

\* an ordering is about to be added to the tail record of a bucket that
\* holds an earlier record as well
C20_Witness ==
  /\ AboutToStore
  /\ LET h == matchings[hp1][hp2][hp1s[0]]
     IN /\ Len(h.list) >= 2
        /\ tail_has_sets(h, helper_size, hp1s, hp2s)
        /\ ~ shares_edge(h.list[Len(h.list)], hp2os, helper_size - 1)

-----------------------------------------------------------------------------
(* Properties of the policies of the selector *)

RECURSIVE ConcatAll(_)
ConcatAll(ss) == IF ss = <<>> THEN <<>> ELSE Head(ss) \o ConcatAll(Tail(ss))

\* the negated variables of the edges (L[t], R[o[t]]) of ordering o
NegatedEdges(rec, o) ==
  [t \in 1..rec.size |->
     0 - get_variableID(g, 0, rec.p1_nodes[t - 1], 1, rec.p2_nodes[o[t - 1]])]

\* the clauses of the orderings o_1..o_{r-1} of a record, in this order
AllButFirst(rec) ==
  [j \in 1..(Len(rec.orderings) - 1) |-> NegatedEdges(rec, rec.orderings[j + 1])]

\* the clauses of all records of all buckets (0, i, 1), in bucket order
AllButFirstOfAll ==
  ConcatAll([i \in 1..g.partition_sizes[0] |->
    ConcatAll([k \in 1..Len(matchings[0][1][i - 1].list) |->
      AllButFirst(matchings[0][1][i - 1].list[k])])])

\* the clauses the emit pass has written, in the order of writing
EmittedSequence == [j \in 1..Len(emitted) |-> emitted[j].clause]

\* the clauses written for the record at position k of bucket (0, i, 1)
EmittedFor(i, k) ==
  SelectSeq(emitted, LAMBDA e : e.at[1] = i /\ e.at[2] = k)

\* C21: under ALL without witness avoidance, for every record with the
\* orderings o_0..o_{r-1} the emit pass writes exactly r-1 clauses, those of
\* o_1..o_{r-1} in this order, each the negated variables of the m edges
\* (L[t], R[o_i[t]]), and none for o_0.
C21_AllBlocksAllButFirst ==
  (pc = "done" /\ blocking_method = ALL /\ avoid_blocking_overlap = 0) =>
    /\ EmittedSequence = AllButFirstOfAll
    /\ \A r \in SelectorRecords :
         /\ Len(EmittedFor(r[1], r[2])) = Len(RecordAt(r).orderings) - 1
         /\ [j \in 1..Len(EmittedFor(r[1], r[2])) |-> EmittedFor(r[1], r[2])[j].clause]
              = AllButFirst(RecordAt(r))
         /\ \A j \in 1..Len(EmittedFor(r[1], r[2])) :
              EmittedFor(r[1], r[2])[j].clause # NegatedEdges(RecordAt(r), RecordAt(r).orderings[1])

\* ALL wrote the clauses of a record of three orderings and of a second
\* record
C21_Witness ==
  /\ pc = "done"
  /\ blocking_method = ALL
  /\ avoid_blocking_overlap = 0
  /\ Cardinality(SelectorRecords) >= 2
  /\ \E r \in SelectorRecords :
       Len(RecordAt(r).orderings) = 3 /\ Len(EmittedFor(r[1], r[2])) = 2

\* the emit pass under avoid_blocking_overlap over the records of one
\* bucket from position m on; S holds both grids and the clauses written
RECURSIVE AvoidOverBucket(_, _, _)
AvoidOverBucket(S, h, m) ==
  IF m > Len(h.list) THEN S
  ELSE LET R == emit_avoid_overlap([h EXCEPT !.list[m].iterator = 1], m,
                                   S.blocked_edges, S.witness_edges, g)
       IN AvoidOverBucket([blocked_edges |-> R.blocked_edges,
                           witness_edges |-> R.witness_edges,
                           clauses |-> S.clauses \o R.clauses], h, m + 1)

\* the same over the buckets (0, i, 1) from node i on
RECURSIVE AvoidOverNodes(_, _)
AvoidOverNodes(S, i) ==
  IF i >= g.partition_sizes[0] THEN S
  ELSE AvoidOverNodes(AvoidOverBucket(S, matchings[0][1][i], 1), i + 1)

\* what a run writes whatever -B says: the clauses of all orderings but the
\* first, or under avoid_blocking_overlap those of the witness search
MethodFreeClauses ==
  IF avoid_blocking_overlap = 0 THEN AllButFirstOfAll
  ELSE AvoidOverNodes([blocked_edges |-> ZeroGrid(g), witness_edges |-> ZeroGrid(g),
                       clauses |-> <<>>], 0).clauses

-----------------------------------------------------------------------------
(* Properties of the witness search *)

\* a pass under avoid_blocking_overlap is about to process the record at
\* the cursor
AtAvoidRecord ==
  /\ pc \in {"count", "emit"}
  /\ avoid_blocking_overlap # 0
  /\ cursor # NULL

\* the record at the cursor
CursorRecord == matchings[0][1][node_i].list[cursor]

\* every ordering of the record at the cursor has an edge marked in
\* blocked_edges
NoWitnessLeft ==
  \A k \in 1..Len(CursorRecord.orderings) :
    grid_hit(blocked_edges, CursorRecord, CursorRecord.orderings[k])

\* the records that a pass under avoid_blocking_overlap went through without
\* finding a witness
Unwitnessed ==
  { r \in SelectorRecords : \A w \in witnessed : <<w[1], w[2]>> # r }

\* C23: under avoid_blocking_overlap, when every ordering of the record at
\* the cursor has an edge marked in blocked_edges, processing the record
\* changes neither witness_edges nor blocked_edges, counts and writes no
\* clause for it, leaves its orderings alone, and goes on with the next
\* record of the bucket.
C23_NoWitnessNoChange ==
  [][ (AtAvoidRecord /\ NoWitnessLeft) =>
        /\ blocked_edges' = blocked_edges
        /\ witness_edges' = witness_edges
        /\ emitted' = emitted
        /\ counted' = counted
        /\ matchings_blocked' = matchings_blocked
        /\ witnessed' = witnessed
        /\ matchings'[0][1][node_i].list[cursor].orderings = CursorRecord.orderings
        /\ cursor' = graph_get_next_set(matchings[0][1][node_i], cursor)
        /\ pc' = pc ]_vars

\* both passes went through a record without finding a witness for it, and
\* no clause was written for it
C23_Witness ==
  /\ pc = "done"
  /\ avoid_blocking_overlap # 0
  /\ Unwitnessed # {}
  /\ \A r \in Unwitnessed : EmittedFor(r[1], r[2]) = <<>>

\* the edges with a nonzero entry in a grid of write_cnf_from_graph
MarkedEdges(grid) ==
  { e \in Nodes(g, 0) \X Nodes(g, 1) : grid[e[1]][e[2]] # 0 }

\* write_cnf_from_graph is in one of its passes, or has finished them
InPass == pc \in {"count", "emit", "done"}

\* C26: throughout a selector pass under avoid_blocking_overlap, after every
\* record processed, no edge (n1, n2) has a nonzero entry in both
\* witness_edges and blocked_edges.
C26_WitnessAndBlockedDisjoint ==
  (InPass /\ avoid_blocking_overlap # 0) =>
    MarkedEdges(witness_edges) \cap MarkedEdges(blocked_edges) = {}

\* a record has just been processed in the emit pass with both grids
\* marked, and an ordering was left unblocked because it meets a witness
\* edge
C26_Witness ==
  /\ pc = "emit"
  /\ avoid_blocking_overlap # 0
  /\ MarkedEdges(witness_edges) # {}
  /\ MarkedEdges(blocked_edges) # {}
  /\ \E w \in witnessed :
       LET rec == matchings[0][1][w[1]].list[w[2]]
       IN \E o \in 1..Len(rec.orderings) :
            /\ o - 1 # w[3]
            /\ \A e \in 1..Len(EmittedFor(w[1], w[2])) :
                 EmittedFor(w[1], w[2])[e].clause # blocking_clause(g, rec, rec.orderings[o])

-----------------------------------------------------------------------------
(* Properties of the search for the orderings of one pair of vertex sets *)

\* the permutations of 0..m-1 in the order in which the swaps of
\* generate_subset_permutations(lo) reach them from the array a when no
\* branch is abandoned
RECURSIVE SearchOrder(_, _, _)
SearchOrder(a, lo_, m) ==
  IF lo_ >= m - 1 THEN <<a>>
  ELSE ConcatAll([k \in 1..(m - lo_) |-> SearchOrder(Swap(a, lo_, lo_ + k - 1), lo_ + 1, m)])

\* generate_subset_permutations(0) has run its loop to the end for the
\* vertex sets hp1s, hp2s
SearchOver == pc = "perm" /\ lo = 0 /\ loop_i >= helper_size

\* the vertex sets of the search, as a record without orderings
SearchedSets == [size |-> helper_size, p1_nodes |-> hp1s, p2_nodes |-> hp2s]

\* the perfect matchings on the vertex sets of the search, in search order
ValidInSearchOrder ==
  SelectSeq(SearchOrder([i \in 0..(helper_size - 1) |-> i], 0, helper_size),
            LAMBDA o : AllPairsAreEdges(g, hp1, hp2, SearchedSets, o))

\* the orderings stored for the vertex sets of the search
StoredForSearch ==
  LET h == matchings[hp1][hp2][hp1s[0]]
  IN IF tail_has_sets(h, helper_size, hp1s, hp2s)
     THEN h.list[Len(h.list)].orderings
     ELSE <<>>

\* C27: when the search for one (L, R) is over, the stored orderings are a
\* maximal edge-disjoint set: they agree pairwise at no position, every
\* permutation whose m pairs are edges is stored or agrees at a position
\* with a stored one, and the first stored ordering is the first such
\* permutation in the order of the swap search.
C27_MaximalEdgeDisjoint ==
  SearchOver =>
    /\ \A k, l \in 1..Len(StoredForSearch) :
         k # l => ~ AgreeSomewhere(StoredForSearch[k], StoredForSearch[l], helper_size)
    /\ \A j \in 1..Len(ValidInSearchOrder) :
         \E k \in 1..Len(StoredForSearch) :
           AgreeSomewhere(ValidInSearchOrder[j], StoredForSearch[k], helper_size)
    /\ (ValidInSearchOrder = <<>>) <=> (StoredForSearch = <<>>)
    /\ ValidInSearchOrder # <<>> => StoredForSearch[1] = ValidInSearchOrder[1]

\* a search of size 3 is over whose first perfect matching is not the
\* identity, with two orderings stored and a perfect matching left out
C27_Witness ==
  /\ SearchOver
  /\ helper_size = 3
  /\ Len(StoredForSearch) = 2
  /\ Len(ValidInSearchOrder) > 2
  /\ StoredForSearch[1] # [i \in 0..2 |-> i]

-----------------------------------------------------------------------------
(* bipartgen.c: the two passes of write_cnf_from_graph as a running program *)

\* the steps of a pass between the records: the for loop over the nodes
NodeStep ==
  \/ CountNode
  \/ CountEnd
  \/ EmitNode
  \/ EmitEnd

\* one turn of "while (m != NULL)" in either pass
RecordStep ==
  \/ CountRecordAvoid
  \/ CountRecordProb
  \/ CountRecordAll
  \/ EmitRecordAvoid
  \/ EmitRecordProb
  \/ EmitRecordAll

\* a pass is at a record of the list of node_i: a turn of the while loop
\* can be taken
AtRecord == pc \in {"count", "emit"} /\ cursor # NULL

\* most edges that a graph handed to the running program lacks
MaxMissing == 2

\* a graph of sizes (3,3) that lacks at most MaxMissing edges
InitPasses ==
  /\ LET empty == graph_create_with_sizes(2, Arr(<<3, 3>>))
         all   == { a \in ValidArgs(empty) : a[1] < a[3] }
     IN /\ \E S \in SUBSET all :
             /\ Cardinality(all \ S) <= MaxMissing
             /\ g = AddEdges(empty, S)
        /\ matchings = create_matchings(2, Arr(<<3, 3>>))
  /\ last = NoCall
  /\ pc = "build"
  /\ HelpersAtStart
  /\ SelectorAtStart
  /\ ChessAtStart

\* graph_generate_perfect_matchings and then write_cnf_from_graph
NextPasses ==
  \/ GenerateStart
  \/ GenPruneSubset
  \/ GenEnterP2
  \/ GenNextPair
  \/ GenLoopsEnd
  \/ GenRunSubset
  \/ GenP2End
  \/ PermRecurse
  \/ PermSkip
  \/ PermLeaf
  \/ PermReturn
  \/ PermEnd
  \/ PruneSingletons
  \/ SelectorStart
  \/ NodeStep
  \/ RecordStep

\* write_cnf_from_graph, once called, keeps running: weak fairness of the
\* steps over the nodes and of the turns of the while loop, the latter
\* written with AtRecord, the condition under which a turn can be taken
SpecPasses ==
  /\ InitPasses
  /\ [][NextPasses]_vars
  /\ WF_vars(NodeStep)
  /\ ([]<>(~ AtRecord) \/ []<><<RecordStep>>_vars)

-----------------------------------------------------------------------------
(* Properties of the walk of the passes *)

\* at a record under avoid_blocking_overlap whose witness search succeeds:
\* the search stops on ordering witness_idx of the record, the rewind ends
\* on the first ordering of the same record
RewindStaysInRecord ==
  AtAvoidRecord =>
    LET h  == matchings[0][1][node_i]
        fw == find_witness(h, cursor, 0, CursorRecord, blocked_edges)
        rw == rewind(fw.h, fw.m, fw.mi)
    IN fw.found_witness = 1 =>
         /\ fw.m = cursor
         /\ fw.h.list[cursor].iterator = fw.witness_idx + 1
         /\ rw.m = cursor
         /\ rw.h.list[cursor].iterator = 1
         /\ \A k \in 1..Len(h.list) : k # cursor => rw.h.list[k] = h.list[k]

\* a step at a record goes to the next record of the list, or to the next
\* node after the last record; a list is entered at its first record; under
\* avoid_blocking_overlap and in the emit pass the cursor of the record is
\* left on its last ordering
WalkInBucketOrder ==
  /\ (AtRecord /\ pc' # "abort") =>
       /\ cursor' = graph_get_next_set(matchings[0][1][node_i], cursor)
       /\ node_i' = IF cursor' = NULL THEN node_i + 1 ELSE node_i
       /\ (avoid_blocking_overlap # 0 \/ pc = "emit") =>
            matchings'[0][1][node_i].list[cursor].iterator = Len(CursorRecord.orderings)
  /\ (pc \in {"count", "emit"} /\ cursor = NULL /\ cursor' # NULL) =>
       /\ cursor' = 1
       /\ node_i' = node_i
       /\ matchings'[0][1][node_i].list[1].iterator = 1

\* C29: in each pass under every policy the walk over a list with records
\* ends and takes every record once, in the order of the list; under
\* avoid_blocking_overlap, after a witness is found at index k the k steps
\* back end on the first ordering of the record without entering the
\* record before it, and the steps forward leave the record only after its
\* last ordering.
C29_WalkTerminatesInOrder ==
  /\ [][WalkInBucketOrder]_vars
  /\ []RewindStaysInRecord
  /\ [](pc # "abort")
  /\ (pc = "count") ~> (pc = "emit")
  /\ (pc = "emit") ~> (pc = "done")
  /\ AtRecord ~> (cursor = NULL)

\* under avoid_blocking_overlap the emit pass has taken a record whose
\* witness is not its first ordering, and stands at the third record of a
\* list
C29_Witness ==
  /\ pc = "emit"
  /\ avoid_blocking_overlap # 0
  /\ cursor = 3
  /\ \E w \in witnessed : w[1] = node_i /\ w[2] = 2 /\ w[3] >= 1

-----------------------------------------------------------------------------
(* Properties of the passes as readers of the matching lists *)

\* a record without its iterator
WithoutCursor(rec) ==
  [size |-> rec.size, p1_nodes |-> rec.p1_nodes, p2_nodes |-> rec.p2_nodes,
   orderings |-> rec.orderings, num_orderings |-> rec.num_orderings]

\* what the lists of the graph G hold: for every list its count and its
\* records in order, each with its vertex sets and its orderings in order
Contents(M, G) ==
  [b \in Buckets(G) |->
     LET h == M[b[1]][b[2]][b[3]]
     IN [matchings |-> h.matchings,
         list |-> [k \in 1..Len(h.list) |-> WithoutCursor(h.list[k])]]]

\* write_cnf_from_graph is called or is in one of its passes
InSelector == pc \in {"enumerated", "count", "emit"}

\* C30: under every policy no step of the count pass and of the emit pass
\* changes the graph, the records of a list or their order, the vertex sets
\* or the sequence of orderings of a record, or a count: from the call of
\* write_cnf_from_graph to its end the lists hold what the enumeration
\* left, only the iterators of the records move.
C30_PassesOnlyMoveCursors ==
  [][ InSelector => /\ g' = g
                    /\ Contents(matchings', g') = Contents(matchings, g) ]_vars

\* both passes are over, clauses were written, and an iterator stands on
\* the last of several orderings
C30_Witness ==
  /\ pc = "done"
  /\ emitted # <<>>
  /\ \E r \in SelectorRecords :
       /\ Len(RecordAt(r).orderings) >= 2
       /\ RecordAt(r).iterator = Len(RecordAt(r).orderings)

-----------------------------------------------------------------------------
(* graph.c: the two subset loops of generate_permutations on their own *)

\* largest partition size tried
MaxSide == 6

\* largest helper_size tried
MaxSubset == 4

\* generate_permutations(s, s) is entered with helper_size = m; the run
\* follows the loop over hp1s (left) or the loop over hp2s (right)
InitSubsets ==
  /\ \E s \in 0..MaxSide, m \in 2..MaxSubset, side \in {"left", "right"} :
       /\ helper_size = m
       /\ up_to_size = m
       /\ hp1s = IF side = "left" THEN ResetArr(AllocInts(m), m) ELSE <<>>
       /\ hp2s = IF side = "right" THEN ResetArr(AllocInts(m), m) ELSE <<>>
       /\ last = [op |-> "subsets", side |-> side, n |-> s, visited |-> <<>>]
  /\ hp1 = 0
  /\ hp2 = 0
  /\ hp2os = <<>>
  /\ stack = <<>>
  /\ g = NoGraph
  /\ matchings = create_matchings(0, <<>>)
  /\ pc = "subsets"
  /\ SelectorAtStart
  /\ ChessAtStart

\* one turn of "while (hp1s[0] < p1_size - helper_size + 1)": the body sees
\* hp1s, then permute_p1 steps to the next subset
SubsetLeft ==
  /\ pc = "subsets"
  /\ last.side = "left"
  /\ hp1s[0] < last.n - helper_size + 1
  /\ last' = [last EXCEPT !.visited = Append(@, Prefix(hp1s, helper_size))]
  /\ hp1s' = next_subset(hp1s, helper_size, last.n)
  /\ UNCHANGED <<g, matchings, pc, up_to_size, helper_size, hp1, hp2, hp2s, hp2os, stack>>
  /\ UNCHANGED selectorVars
  /\ UNCHANGED chessVars

\* one turn of "while (hp2s[0] < p2_size - helper_size + 1)"
SubsetRight ==
  /\ pc = "subsets"
  /\ last.side = "right"
  /\ hp2s[0] < last.n - helper_size + 1
  /\ last' = [last EXCEPT !.visited = Append(@, Prefix(hp2s, helper_size))]
  /\ hp2s' = next_subset(hp2s, helper_size, last.n)
  /\ UNCHANGED <<g, matchings, pc, up_to_size, helper_size, hp1, hp2, hp1s, hp2os, stack>>
  /\ UNCHANGED selectorVars
  /\ UNCHANGED chessVars

\* the test of the while loop fails
SubsetsEnd ==
  /\ pc = "subsets"
  /\ LET arr == IF last.side = "left" THEN hp1s ELSE hp2s
     IN ~ (arr[0] < last.n - helper_size + 1)
  /\ pc' = "subsets_done"
  /\ UNCHANGED <<g, matchings, last>>
  /\ UNCHANGED helperVars
  /\ UNCHANGED selectorVars
  /\ UNCHANGED chessVars

NextSubsets ==
  \/ SubsetLeft
  \/ SubsetRight
  \/ SubsetsEnd

\* the loops run on their own: a step that can be taken is taken
SpecSubsets == InitSubsets /\ [][NextSubsets]_vars /\ WF_vars(NextSubsets)

-----------------------------------------------------------------------------
(* Properties of the subset loops *)

\* the strictly ascending m-tuples over 0..s-1
AscendingTuples(m, s) ==
  { f \in [0..(m - 1) -> 0..(s - 1)] : StrictlyAscending(f, m) }

\* what the loop has visited is strictly ascending in lexicographic order
VisitedInOrder ==
  pc \in {"subsets", "subsets_done"} =>
    /\ \A k \in 1..Len(last.visited) : last.visited[k] \in AscendingTuples(helper_size, last.n)
    /\ \A k \in 1..(Len(last.visited) - 1) :
         ArrLess(last.visited[k], last.visited[k + 1], helper_size)

\* the loop is over and has visited every subset, and none when m > s
VisitedAll ==
  pc = "subsets_done" =>
    /\ { last.visited[k] : k \in 1..Len(last.visited) }
         = AscendingTuples(helper_size, last.n)
    /\ Len(last.visited) = Cardinality(AscendingTuples(helper_size, last.n))
    /\ helper_size > last.n => last.visited = <<>>

\* C24: for every partition size s and subset size m >= 2 the subset loop of
\* generate_permutations, left or right, ends, and it visits every m-subset
\* of 0..s-1 exactly once, in strictly ascending lexicographic order of the
\* sorted tuples, and nothing when m > s.
C24_SubsetsInOrder ==
  /\ [](VisitedInOrder /\ VisitedAll)
  /\ <>(pc = "subsets_done")

\* the loop over the 3-subsets of 0..5 is over and went through carries of
\* two positions
C24_Witness ==
  /\ pc = "subsets_done"
  /\ helper_size = 3
  /\ last.n = 6
  /\ Len(last.visited) = 20
  /\ \E k \in 1..19 :
       last.visited[k] = Arr(<<0, 4, 5>>) /\ last.visited[k + 1] = Arr(<<1, 2, 3>>)

-----------------------------------------------------------------------------
(* graph.c: cursor moves and graph_remove_matching after the enumeration *)

\* most calls made on the matching lists in one run
MaxCalls == 3

\* what a read through an iterator that points to a freed node_ordering_t
\* does: undefined behaviour, the process faults or the read returns what
\* the node held
UseAfterFreeOutcomes == {"fault", "stale"}

\* m->iterator points to an ordering that graph_remove_matching has freed
Dangling(m) == m.iterator = Freed

\* graph_remove_matching with num_orderings > 1 through a freed iterator
\* whose prev and next still hold: the pointers are re-routed to what they
\* are already, and both counters go down
remove_through_freed(h, k) ==
  [ matchings |-> h.matchings - 1,
    list |-> [h.list EXCEPT ![k] = [@ EXCEPT !.num_orderings = @ - 1]] ]

\* the calls made so far
CallsMade == IF last.op = "none" THEN 0 ELSE last.calls

\* the caller takes the first matching of a node that has matchings and
\* walks with graph_get_next_set to the k-th record
CursorWalk ==
  /\ pc = "enumerated"
  /\ CallsMade < MaxCalls
  /\ \E i \in Nodes(g, 0) :
       /\ graph_get_num_matchings(matchings, 0, i, 1) > 0
       /\ matchings[0][1][i].list # <<>>
       /\ \E k \in 1..Len(matchings[0][1][i].list) :
            /\ matchings' = [matchings EXCEPT ![0][1][i] = graph_get_first_matching(@).h]
            /\ node_i' = i
            /\ cursor' = k
            /\ last' = [op |-> "walk", calls |-> CallsMade + 1, pre |-> matchings[0][1][i],
                        use_after_free |-> FALSE]
  /\ UNCHANGED <<g, pc>>
  /\ UNCHANGED helperVars
  /\ UNCHANGED optionVars
  /\ UNCHANGED <<rand_stream, rand_next, blocked_edges, witness_edges, matchings_blocked,
                 counted, emitted, witnessed>>
  /\ UNCHANGED chessVars

\* m = graph_get_next_matching(m) on the record of the cursor
CursorNext ==
  /\ pc = "enumerated"
  /\ CallsMade < MaxCalls
  /\ cursor # NULL
  /\ LET h == matchings[0][1][node_i]
         m == h.list[cursor]
     IN IF Dangling(m)
        THEN \E outcome \in UseAfterFreeOutcomes :
               /\ last' = [op |-> "next", calls |-> CallsMade + 1, pre |-> h,
                           use_after_free |-> TRUE]
               /\ IF outcome = "fault"
                  THEN pc' = "fault" /\ UNCHANGED <<matchings, cursor>>
                  ELSE \E j \in 0..Len(m.orderings) :
                         LET nx == graph_get_next_matching(
                                     [h EXCEPT !.list[cursor].iterator = j], cursor)
                         IN /\ cursor' = nx.m
                            /\ matchings' = [matchings EXCEPT ![0][1][node_i] =
                                 IF nx.m = cursor THEN nx.h
                                 ELSE [nx.h EXCEPT !.list[cursor].iterator = Freed]]
                            /\ UNCHANGED pc
        ELSE LET nx == graph_get_next_matching(h, cursor)
             IN /\ matchings' = [matchings EXCEPT ![0][1][node_i] = nx.h]
                /\ cursor' = nx.m
                /\ last' = [op |-> "next", calls |-> CallsMade + 1, pre |-> h,
                            use_after_free |-> FALSE]
                /\ UNCHANGED pc
  /\ UNCHANGED <<g, node_i>>
  /\ UNCHANGED helperVars
  /\ UNCHANGED optionVars
  /\ UNCHANGED <<rand_stream, rand_next, blocked_edges, witness_edges, matchings_blocked,
                 counted, emitted, witnessed>>
  /\ UNCHANGED chessVars

\* m = graph_get_prev_matching(m) on the record of the cursor
CursorPrev ==
  /\ pc = "enumerated"
  /\ CallsMade < MaxCalls
  /\ cursor # NULL
  /\ LET h == matchings[0][1][node_i]
         m == h.list[cursor]
     IN IF Dangling(m)
        THEN \E outcome \in UseAfterFreeOutcomes :
               /\ last' = [op |-> "prev", calls |-> CallsMade + 1, pre |-> h,
                           use_after_free |-> TRUE]
               /\ IF outcome = "fault"
                  THEN pc' = "fault" /\ UNCHANGED <<matchings, cursor>>
                  ELSE \E j \in 1..(Len(m.orderings) + 1) :
                         LET pv == graph_get_prev_matching(
                                     [h EXCEPT !.list[cursor].iterator = j], cursor)
                         IN /\ cursor' = pv.m
                            /\ matchings' = [matchings EXCEPT ![0][1][node_i] =
                                 IF pv.m = cursor THEN pv.h
                                 ELSE [pv.h EXCEPT !.list[cursor].iterator = Freed]]
                            /\ UNCHANGED pc
        ELSE LET pv == graph_get_prev_matching(h, cursor)
             IN /\ matchings' = [matchings EXCEPT ![0][1][node_i] = pv.h]
                /\ cursor' = pv.m
                /\ last' = [op |-> "prev", calls |-> CallsMade + 1, pre |-> h,
                            use_after_free |-> FALSE]
                /\ UNCHANGED pc
  /\ UNCHANGED <<g, node_i>>
  /\ UNCHANGED helperVars
  /\ UNCHANGED optionVars
  /\ UNCHANGED <<rand_stream, rand_next, blocked_edges, witness_edges, matchings_blocked,
                 counted, emitted, witnessed>>
  /\ UNCHANGED chessVars

\* graph_remove_matching(g, 0, i, 1, m) on the record of the cursor; the
\* caller drops m when the record is gone
CursorRemove ==
  /\ pc = "enumerated"
  /\ CallsMade < MaxCalls
  /\ cursor # NULL
  /\ LET h == matchings[0][1][node_i]
         m == h.list[cursor]
     IN IF m.num_orderings > 1 /\ Dangling(m)
        THEN \E outcome \in UseAfterFreeOutcomes :
               /\ last' = [op |-> "remove_matching", calls |-> CallsMade + 1, pre |-> h,
                           use_after_free |-> TRUE]
               /\ IF outcome = "fault"
                  THEN pc' = "fault" /\ UNCHANGED matchings
                  ELSE /\ matchings' = [matchings EXCEPT ![0][1][node_i] =
                                          remove_through_freed(h, cursor)]
                       /\ UNCHANGED pc
               /\ UNCHANGED cursor
        ELSE /\ matchings' = [matchings EXCEPT ![0][1][node_i] =
                                graph_remove_matching(h, cursor)]
             /\ cursor' = IF m.num_orderings > 1 THEN cursor ELSE NULL
             /\ last' = [op |-> "remove_matching", calls |-> CallsMade + 1, pre |-> h,
                         use_after_free |-> FALSE]
             /\ UNCHANGED pc
  /\ UNCHANGED <<g, node_i>>
  /\ UNCHANGED helperVars
  /\ UNCHANGED optionVars
  /\ UNCHANGED <<rand_stream, rand_next, blocked_edges, witness_edges, matchings_blocked,
                 counted, emitted, witnessed>>
  /\ UNCHANGED chessVars

\* "while (h->head != NULL) graph_remove_matching(g, i, k, j, h->head)":
\* TRUE when a call goes through a freed iterator
RECURSIVE free_bucket_dangles(_)
free_bucket_dangles(h) ==
  IF h.list = <<>> THEN FALSE
  ELSE IF h.list[1].num_orderings > 1 /\ Dangling(h.list[1]) THEN TRUE
       ELSE free_bucket_dangles(graph_remove_matching(h, 1))

\* graph_free: the matchings of every list are removed from the head
GraphFree ==
  /\ pc = "enumerated"
  /\ LET dangles == \E b \in Buckets(g) : free_bucket_dangles(matchings[b[1]][b[2]][b[3]])
     IN /\ last' = [op |-> "graph_free", calls |-> CallsMade + 1, pre |-> <<>>,
                    use_after_free |-> dangles]
        /\ IF dangles
           THEN \E outcome \in UseAfterFreeOutcomes :
                  pc' = IF outcome = "fault" THEN "fault" ELSE "freed"
           ELSE pc' = "freed"
  /\ matchings' = create_matchings(g.partitions, g.partition_sizes)
  /\ cursor' = NULL
  /\ UNCHANGED <<g, node_i>>
  /\ UNCHANGED helperVars
  /\ UNCHANGED optionVars
  /\ UNCHANGED <<rand_stream, rand_next, blocked_edges, witness_edges, matchings_blocked,
                 counted, emitted, witnessed>>
  /\ UNCHANGED chessVars

\* the graph, the enumeration, and the walks and removals that follow it
NextCursor ==
  \/ AddEdge
  \/ RemoveEdge
  \/ FullyConnectNode
  \/ FullyConnectPartition
  \/ GenerateStart
  \/ GenPruneSubset
  \/ GenEnterP2
  \/ GenNextPair
  \/ GenLoopsEnd
  \/ GenRunSubset
  \/ GenP2End
  \/ PermRecurse
  \/ PermSkip
  \/ PermLeaf
  \/ PermReturn
  \/ PermEnd
  \/ PruneSingletons
  \/ CursorWalk
  \/ CursorNext
  \/ CursorPrev
  \/ CursorRemove
  \/ GraphFree

SpecCursor == Init /\ [][NextCursor]_vars

-----------------------------------------------------------------------------
(* Properties of the counts and cursors of the matching lists *)

\* the orderings linked in the records of a list from position k on
RECURSIVE LinkedOrderings(_, _)
LinkedOrderings(h, k) ==
  IF k > Len(h.list) THEN 0
  ELSE Len(h.list[k].orderings) + LinkedOrderings(h, k + 1)

\* the run has neither faulted nor freed its graph
Running == pc \notin {"fault", "freed"}

\* C25: after any sequence of enumeration appends and graph_remove_matching
\* calls, the count of every list is the number of orderings linked in its
\* records, so it is 0 exactly when the list has no record, and a
\* graph_remove_matching that returns has lowered it by exactly one.
C25_CountIsLinkedOrderings ==
  Running =>
    /\ \A b \in Buckets(g) :
         LET h == matchings[b[1]][b[2]][b[3]]
         IN /\ graph_get_num_matchings(matchings, b[1], b[3], b[2]) = LinkedOrderings(h, 1)
            /\ (graph_get_num_matchings(matchings, b[1], b[3], b[2]) = 0) <=> (h.list = <<>>)
    /\ last.op = "remove_matching" =>
         graph_get_num_matchings(matchings, 0, node_i, 1) = last.pre.matchings - 1

\* the count has gone down by one at each of two removals on one record,
\* the second through the freed iterator, and the list holds more orderings
\* than the count says
C25_CountBelowLinked ==
  /\ pc = "enumerated"
  /\ last.op = "remove_matching"
  /\ last.use_after_free
  /\ graph_get_num_matchings(matchings, 0, node_i, 1) = last.pre.matchings - 1
  /\ graph_get_num_matchings(matchings, 0, node_i, 1)
       < LinkedOrderings(matchings[0][1][node_i], 1)

\* without a removal through a freed iterator the count is the number of
\* linked orderings
C25_CountWithoutUseAfterFree ==
  (Running /\ \A b \in Buckets(g) : \A k \in 1..Len(matchings[b[1]][b[2]][b[3]].list) :
       LET m == matchings[b[1]][b[2]][b[3]].list[k]
       IN m.num_orderings = Len(m.orderings))
    => \A b \in Buckets(g) :
         graph_get_num_matchings(matchings, b[1], b[3], b[2])
           = LinkedOrderings(matchings[b[1]][b[2]][b[3]], 1)

\* the calls on the matching lists that follow the enumeration
CursorCalls == {"walk", "next", "prev", "remove_matching", "graph_free"}

\* C28: after any sequence of cursor moves and graph_remove_matching calls
\* on a record, the iterator of the record designates an ordering that is
\* linked in the record, and no call, graph_free with its repeated removals
\* on the head of a list included, goes through an ordering that has been
\* removed.
C28_CursorStaysLinked ==
  last.op \in CursorCalls =>
    /\ ~ last.use_after_free
    /\ (pc = "enumerated" /\ cursor # NULL) =>
         CursorRecord.iterator \in 1..Len(CursorRecord.orderings)

\* graph_free has removed twice on a head record with 3 orderings and the
\* second removal went through the ordering freed by the first
C28_GraphFreeThroughFreed ==
  /\ last.op = "graph_free"
  /\ last.calls = 1
  /\ last.use_after_free
  /\ pc = "freed"

\* one removal on a record that keeps orderings leaves its iterator on the
\* freed ordering
C28_IteratorLeftOnFreed ==
  /\ pc = "enumerated"
  /\ last.op = "remove_matching"
  /\ ~ last.use_after_free
  /\ cursor # NULL
  /\ Dangling(CursorRecord)
  /\ Len(CursorRecord.orderings) >= 1

\* the iterator of a record is on a linked ordering unless a removal has
\* left it on the ordering it freed
C28_IteratorLinkedOrFreed ==
  Running =>
    \A i \in Nodes(g, 0) : \A k \in 1..Len(matchings[0][1][i].list) :
      LET m == matchings[0][1][i].list[k]
      IN m.iterator \in 1..Len(m.orderings) \/ Dangling(m)

=============================================================================
